---------------------------- MODULE Spec2Model ----------------------------
(***************************************************************************)
(* Verification model of the soap-film core (260208_SoapFilm):            *)
(*   - mst.ts            buildMst (Kruskal with union-find)               *)
(*   - filmTopology.ts   buildFilmTopology, findBestLoopAlignment,        *)
(*                       mapIndex                                          *)
(*   - solver.ts         createFilmState, createSolverContext,            *)
(*                       runRelaxationStep, resetFilmState                *)
(*   - createSoapFilmApp.ts  the film runtime life cycle                  *)
(*                                                                         *)
(* Numbers.  The program computes in IEEE floating point.  The model      *)
(* computes in fixed point: a length x is the integer x * FixedOne, and   *)
(* every product, quotient and square root is rounded to that grid.       *)
(* Arrays are 0-based functions where the source indexes them by vertex   *)
(* or by sample; frame lists are TLA+ sequences (1-based).                 *)
(***************************************************************************)
EXTENDS Integers, Sequences, FiniteSets, TLC

VARIABLES
    \* ---- buildMst harness -------------------------------------------
    mstFrameIds,     \* argument frameIds: a list of distinct ids
    mstCenters,      \* argument frameCenters: Map id -> Vector3
    mstResult,       \* the returned MstEdge[] ("none" before the call)
    mstParent,       \* union-find parent[] at return (observed for the claims)
    mstCalled,       \* whether buildMst has returned
    \* ---- buildFilmTopology harness ----------------------------------
    topoFrames,      \* argument frameRuntimes: a list of FrameRuntime
    topoOptions,     \* argument options
    topoResult,      \* the FilmTopologyBuildResult ("none" before the call)
    topoCalled,      \* whether buildFilmTopology has been called
    \* ---- solver harness ----------------------------------------------
    solFilmState,    \* the FilmState handed to the solver
    solContext,      \* the SolverContext created from it
    solFrames,       \* the frame map the boundary sampler reads
    solLast,         \* the last operation: its name, the film state before
                     \* it, and for a step the state after the first
                     \* projection of its last substep
    solOps,          \* number of operations so far
    \* ---- app ---------------------------------------------------------
    appFrameIds,        \* the keys of frameEntities, in insertion order
    appFrameIdCounter,  \* frameIdCounter
    appRuntime,         \* filmRuntime: absent, or its state and solverContext
    appRebuilds,        \* number of rebuildFilm calls so far
    appStepped,         \* the last runRelaxationStep call: who made it, its
                        \* arguments, and the number of rebuilds before it
    appDisposed,        \* whether dispose() has run
    appSelection,       \* selectedFrameId, pointEditFrameId and
                        \* selectedControlPoint
    appClipboard,       \* whether frameClipboard holds a copied frame
    appEvent,           \* the last input event handled, with the selection
                        \* it found
    appDrag,            \* the transform controls whose dragging property is
                        \* true, and isTransformDragging
    frmFrame,           \* the frame state under test, or absent
    frmPoints,          \* the points sampled from it, by parameter numerator
    frmDivisors,        \* the divisions the sampler made for them
    frmMoved            \* the indices of the control points moved so far

mstVars == <<mstFrameIds, mstCenters, mstResult, mstParent, mstCalled>>

topoVars == <<topoFrames, topoOptions, topoResult, topoCalled>>

solverVars == <<solFilmState, solContext, solFrames, solLast, solOps>>

appVars ==
    <<appFrameIds, appFrameIdCounter, appRuntime, appRebuilds, appStepped,
      appDisposed, appSelection, appClipboard, appEvent, appDrag>>

frameVars == <<frmFrame, frmPoints, frmDivisors, frmMoved>>

vars == <<mstVars, topoVars, solverVars, appVars, frameVars>>

-----------------------------------------------------------------------------
(* Bounds of the model *)

\* Fixed-point unit: the integer that stands for the length 1.0.
FixedOne == 20

\* buildMst harness: at most this many frame ids, centers on a lattice
\* with x in 0..MaxCoord and y in 0..1.
MaxMstFrames == 4
MaxCoord == 2

\* buildFilmTopology harness: at most this many frames; boundarySamples is
\* MaxSamples or MaxSamples - 3; options.spanSubdivisions is undefined, 0,
\* MaxSpan - 1/2 or MaxSpan.
MaxTopoFrames == 3
MaxSamples == 9
MaxSpan == 3

\* Solver harness: the solver settings are fractions counted in
\* 1 / ConfigOne; substeps is 0..MaxSubsteps; at most MaxOps operations are
\* applied to a film state.
ConfigOne == 100
MaxSubsteps == 2
MaxOps == 3

\* App: at most MaxAppFrames frames at a time and MaxRebuilds calls of
\* rebuildFilm.
MaxAppFrames == 3
MaxRebuilds == 4

\* Largest number of transform controls that drag at the same time.
MaxPointers == 2

-----------------------------------------------------------------------------
(* Vector3 helpers (three.js), on triples of fixed-point integers *)

Vec(x, y, z) == <<x, y, z>>

VSub(a, b) == <<a[1] - b[1], a[2] - b[2], a[3] - b[3]>>

VAdd(a, b) == <<a[1] + b[1], a[2] + b[2], a[3] + b[3]>>

\* Vector3.distanceToSquared
DistanceToSquared(a, b) ==
    LET d == VSub(a, b) IN d[1] * d[1] + d[2] * d[2] + d[3] * d[3]

\* Math.sqrt on the fixed-point grid: the largest r with r*r <= n.
RECURSIVE SqrtSearch(_, _, _)
SqrtSearch(n, lo, hi) ==
    IF lo >= hi THEN lo
    ELSE LET mid == (lo + hi + 1) \div 2 IN
         IF mid * mid <= n THEN SqrtSearch(n, mid, hi)
         ELSE SqrtSearch(n, lo, mid - 1)

\* Square roots of the small arguments, computed once.
SqrtTableMax == 64 * FixedOne * FixedOne

SqrtTable == [n \in 0..SqrtTableMax |-> SqrtSearch(n, 0, 8 * FixedOne)]

Sqrt(n) == IF n <= SqrtTableMax THEN SqrtTable[n] ELSE SqrtSearch(n, 0, 46340)

\* Vector3.distanceTo
DistanceTo(a, b) == Sqrt(DistanceToSquared(a, b))

-----------------------------------------------------------------------------
(* mst.ts: buildMst *)

\* The nested i < j loops that fill weightedEdges; a pair with a missing
\* center is skipped.  aIndex/bIndex are positions in frameIds.
RECURSIVE EnumeratePairs(_, _, _, _)
EnumeratePairs(frameIds, frameCenters, i, j) ==
    IF i > Len(frameIds) THEN <<>>
    ELSE IF j > Len(frameIds)
         THEN EnumeratePairs(frameIds, frameCenters, i + 1, i + 2)
    ELSE LET rest == EnumeratePairs(frameIds, frameCenters, i, j + 1) IN
         IF frameIds[i] \notin DOMAIN frameCenters
               \/ frameIds[j] \notin DOMAIN frameCenters
         THEN rest
         ELSE <<[aIndex |-> i, bIndex |-> j,
                 weight |-> DistanceTo(frameCenters[frameIds[i]],
                                       frameCenters[frameIds[j]])]>> \o rest

\* Mutant of InsertByWeight: an element goes in front of the elements of
\* equal weight, so ties come out in reverse enumeration order.
RECURSIVE InsertBeforeEqual(_, _)
InsertBeforeEqual(sorted, e) ==
    IF sorted = <<>> THEN <<e>>
    ELSE LET last == sorted[Len(sorted)] IN
         IF last.weight - e.weight < 0 THEN Append(sorted, e)
         ELSE Append(InsertBeforeEqual(SubSeq(sorted, 1, Len(sorted) - 1), e),
                     last)

\* Array.prototype.sort is stable: an element goes behind every element
\* that the comparator does not order after it.
RECURSIVE InsertByWeight(_, _)
InsertByWeight(sorted, e) ==
    IF sorted = <<>> THEN <<e>>
    ELSE LET last == sorted[Len(sorted)] IN
         IF last.weight - e.weight <= 0 THEN Append(sorted, e)
         ELSE Append(InsertByWeight(SubSeq(sorted, 1, Len(sorted) - 1), e), last)

RECURSIVE SortFrom(_, _, _)
SortFrom(edges, k, sorted) ==
    IF k > Len(edges) THEN sorted
    ELSE SortFrom(edges, k + 1, InsertByWeight(sorted, edges[k]))

\* Mutant of SortByWeight: the sort call is missing, the candidates stay in
\* enumeration order.
SortByWeightMissing(edges) == edges

\* weightedEdges.sort((left, right) => left.weight - right.weight)
SortByWeight(edges) == SortFrom(edges, 1, <<>>)

\* find(index), with its path compression: the root and the parent array
\* it leaves behind.
RECURSIVE Find(_, _)
Find(parent, index) ==
    IF parent[index] # index
    THEN LET r == Find(parent, parent[index]) IN
         [parent |-> [r.parent EXCEPT ![index] = r.root], root |-> r.root]
    ELSE [parent |-> parent, root |-> index]

\* Mutant of Unite: the two indices are compared and linked directly,
\* without find: an edge inside one component is accepted.
UniteWithoutFind(uf, aIndex, bIndex) ==
    IF aIndex = bIndex
    THEN [parent |-> uf.parent, rank |-> uf.rank, merged |-> FALSE]
    ELSE [parent |-> [uf.parent EXCEPT ![bIndex] = aIndex], rank |-> uf.rank,
          merged |-> TRUE]

\* unite(aIndex, bIndex): union by rank; merged is its boolean result.
Unite(uf, aIndex, bIndex) ==
    LET fa == Find(uf.parent, aIndex)
        fb == Find(fa.parent, bIndex)
        rootA == fa.root
        rootB == fb.root
        parent == fb.parent
        rank == uf.rank
    IN  IF rootA = rootB
        THEN [parent |-> parent, rank |-> rank, merged |-> FALSE]
        ELSE IF rank[rootA] < rank[rootB]
        THEN [parent |-> [parent EXCEPT ![rootA] = rootB], rank |-> rank,
              merged |-> TRUE]
        ELSE IF rank[rootA] > rank[rootB]
        THEN [parent |-> [parent EXCEPT ![rootB] = rootA], rank |-> rank,
              merged |-> TRUE]
        ELSE [parent |-> [parent EXCEPT ![rootB] = rootA],
              rank |-> [rank EXCEPT ![rootA] = rank[rootA] + 1],
              merged |-> TRUE]

\* The loop over the sorted edges, with its break at N-1 accepted edges.
RECURSIVE KruskalLoop(_, _, _, _, _)
KruskalLoop(frameIds, edges, k, uf, mst) ==
    IF k > Len(edges) THEN [edges |-> mst, parent |-> uf.parent]
    ELSE LET edge == edges[k]
             u == Unite(uf, edge.aIndex, edge.bIndex)
         IN  IF u.merged
             THEN LET mst2 == Append(mst, [from |-> frameIds[edge.aIndex],
                                           to |-> frameIds[edge.bIndex],
                                           weight |-> edge.weight])
                  IN  IF Len(mst2) = Len(frameIds) - 1
                      THEN [edges |-> mst2, parent |-> u.parent]
                      ELSE KruskalLoop(frameIds, edges, k + 1, u, mst2)
             ELSE KruskalLoop(frameIds, edges, k + 1, u, mst)

\* The candidate order handed to the Kruskal loop.
CandidateOrder(frameIds, frameCenters) ==
    SortByWeight(EnumeratePairs(frameIds, frameCenters, 1, 2))

\* buildMst(frameIds, frameCenters) with the union-find state at return.
BuildMstRun(frameIds, frameCenters) ==
    IF Len(frameIds) <= 1
    THEN [edges |-> <<>>, parent |-> [i \in 1..Len(frameIds) |-> i]]
    ELSE KruskalLoop(frameIds, CandidateOrder(frameIds, frameCenters), 1,
                     [parent |-> [i \in 1..Len(frameIds) |-> i],
                      rank |-> [i \in 1..Len(frameIds) |-> 0]],
                     <<>>)

buildMst(frameIds, frameCenters) == BuildMstRun(frameIds, frameCenters).edges

-----------------------------------------------------------------------------
(* Arrays and numbers of the JavaScript runtime *)

\* A JavaScript array is a sequence; At reads element i (0-based).
At(arr, i) == arr[i + 1]

\* The % operator: the remainder takes the sign of the dividend.
JsRem(a, d) == IF a >= 0 THEN a % d ELSE -((-a) % d)

\* a * b / c, rounded toward zero.
MulDiv(a, b, c) ==
    LET n == a * b IN IF n >= 0 THEN n \div c ELSE -((-n) \div c)

Max2(a, b) == IF a >= b THEN a ELSE b

Min2(a, b) == IF a <= b THEN a ELSE b

\* Statement order: first is computed, then Rest is applied to its value.
AndThen(first, Rest(_)) == CHOOSE result \in {Rest(value) : value \in {first}} : TRUE

-----------------------------------------------------------------------------
(* frameSampling.ts: the shape samplers and the spline, in fixed point *)

\* Scale of the values of Math.sin and Math.cos.
TrigOne == FixedOne * FixedOne

\* sin of n/d turns for 0 <= n/d <= 1/2, by Bhaskara's rational
\* approximation 16x(pi-x) / (5pi^2 - 4x(pi-x)).
SinHalfTurn(n, d) ==
    (TrigOne * 32 * n * (d - 2 * n)) \div (5 * d * d - 8 * n * (d - 2 * n))

\* Math.sin(2*pi*n/d) for 0 <= n < d.
SinTurns(n, d) ==
    IF 2 * n <= d THEN SinHalfTurn(n, d) ELSE -SinHalfTurn(2 * n - d, 2 * d)

\* Math.cos(2*pi*n/d) for 0 <= n < d: the sine a quarter turn later.
CosTurns(n, d) == SinTurns((4 * n + d) % (4 * d), 4 * d)

\* Lengths inside the shape samplers are counted in 1 / (FixedOne * FineOne);
\* angles along a corner arc are counted in 1 / TurnGrid of a turn.
FineOne == 50

TurnGrid == 96

\* A sampler's length on the grid of the coordinates.
ToGrid(length) == MulDiv(length, 1, FineOne)

\* Math.PI * x and Math.PI * 0.5 * x, with 355/113 for pi.
PiTimes(x) == MulDiv(x, 355, 113)

HalfPiTimes(x) == MulDiv(x, 355, 226)

\* Mutant of ReduceParam: the parameter is clamped into [0, 1), not wrapped.
ReduceParamClamped(num, den) == Min2(Max2(num, 0), den - 1)

\* Lines 84 and 136: t = ((curveParamT % 1) + 1) % 1 for curveParamT =
\* num / den; the result is the numerator of t over den.
ReduceParam(num, den) == JsRem(JsRem(num, den) + den, den)

\* Lines 86-87: the circle, angle = t * TWO_PI.
sampleCirclePoint(radius, t, den) ==
    Vec(MulDiv(CosTurns(t, den), radius, TrigOne),
        MulDiv(SinTurns(t, den), radius, TrigOne),
        0)

\* alpha = length <= 1e-8 ? 0 : distance / length, applied to from -> to.
AlongEdge(from, to, distance, length) ==
    IF length <= 0 THEN from ELSE from + MulDiv(to - from, distance, length)

\* target.set(x0 + (x1 - x0) * alpha, y0 + (y1 - y0) * alpha, 0)
PointAlongEdge(x0, y0, x1, y1, distance, length) ==
    Vec(ToGrid(AlongEdge(x0, x1, distance, length)),
        ToGrid(AlongEdge(y0, y1, distance, length)), 0)

\* Math.hypot(x, y)
Hypot(x, y) == Sqrt(x * x + y * y)

\* Lines 118-131: the edge the distance falls on, for the corners
\* a = (0, hh), b = (-hw, -hh), c = (hw, -hh).
TrianglePointAt(hw, hh, abLength, bcLength, caLength, distance) ==
    IF distance <= abLength
    THEN PointAlongEdge(0, hh, -hw, -hh, distance, abLength)
    ELSE IF distance - abLength <= bcLength
    THEN PointAlongEdge(-hw, -hh, hw, -hh, distance - abLength, bcLength)
    ELSE PointAlongEdge(hw, -hh, 0, hh, distance - abLength - bcLength,
                        caLength)

\* Lines 115-117: perimeter and distance = t * perimeter.
TriangleWalk(hw, hh, abLength, bcLength, caLength, t, den) ==
    TrianglePointAt(hw, hh, abLength, bcLength, caLength,
                    MulDiv(t, abLength + bcLength + caLength, den))

\* Lines 105-114: the corners and the edge lengths, from the half sizes.
TriangleOfHalves(hw, hh, t, den) ==
    TriangleWalk(hw, hh, Hypot(-hw - 0, -hh - hh), Hypot(hw + hw, -hh + hh),
                 Hypot(0 - hw, hh + hh), t, den)

\* sampleTrianglePoint(width, height, t, target) for t = t / den.
sampleTrianglePoint(width, height, t, den) ==
    TriangleOfHalves((width * FineOne) \div 2, (height * FineOne) \div 2,
                     t, den)

\* The angle quarters * pi/2 - distance / r of a corner arc, as a number
\* of 1 / TurnGrid turns in 0..TurnGrid-1.
ArcAngle(quarters, distance, r) ==
    JsRem(JsRem(quarters * (TurnGrid \div 4)
                  - MulDiv(distance, TurnGrid, PiTimes(2 * r)), TurnGrid)
            + TurnGrid,
          TurnGrid)

\* <<Math.cos(angle) * r, Math.sin(angle) * r>>
ArcPoint(angle, r) ==
    <<MulDiv(CosTurns(angle, TurnGrid), r, TrigOne),
      MulDiv(SinTurns(angle, TurnGrid), r, TrigOne)>>

\* The quarter turns the angle of corner segmentIndex starts from:
\* PI * 0.5, 0, -PI * 0.5 and PI for the segments 1, 3, 5 and 7.
ArcQuarters(segmentIndex) ==
    IF segmentIndex = 1 THEN 1
    ELSE IF segmentIndex = 3 THEN 0
    ELSE IF segmentIndex = 5 THEN -1
    ELSE 2

\* The corner arcs (segments 1, 3, 5, 7) around their centres.
PointOnCorner(segmentIndex, arc, hw, hh, r) ==
    IF segmentIndex = 1 THEN <<hw - r + arc[1], hh - r + arc[2]>>
    ELSE IF segmentIndex = 3 THEN <<hw - r + arc[1], -hh + r + arc[2]>>
    ELSE IF segmentIndex = 5 THEN <<-hw + r + arc[1], -hh + r + arc[2]>>
    ELSE <<-hw + r + arc[1], hh - r + arc[2]>>

\* pointOnRoundedRectSegment(segmentIndex, distance, hw, hh, r, target)
pointOnRoundedRectSegment(segmentIndex, distance, hw, hh, r) ==
    IF segmentIndex = 0 THEN <<-hw + r + distance, hh>>
    ELSE IF segmentIndex = 2 THEN <<hw, hh - r - distance>>
    ELSE IF segmentIndex = 4 THEN <<hw - r - distance, -hh>>
    ELSE IF segmentIndex = 6 THEN <<-hw, -hh + r + distance>>
    ELSE PointOnCorner(segmentIndex,
                       ArcPoint(ArcAngle(ArcQuarters(segmentIndex),
                                         distance, r), r),
                       hw, hh, r)

\* Lines 192-200: the segment the distance falls into, or the fallback
\* point when it lies beyond the last segment.
RECURSIVE WalkSegments(_, _, _, _, _, _)
WalkSegments(segments, segmentIndex, distance, hw, hh, r) ==
    IF segmentIndex >= Len(segments) THEN <<hw - r, hh>>
    ELSE IF distance <= At(segments, segmentIndex)
    THEN pointOnRoundedRectSegment(segmentIndex, distance, hw, hh, r)
    ELSE WalkSegments(segments, segmentIndex + 1,
                      distance - At(segments, segmentIndex), hw, hh, r)

\* target.set(x, y, 0) for a point of the samplers' fine grid.
PointToGrid(point) == Vec(ToGrid(point[1]), ToGrid(point[2]), 0)

\* Lines 178-200: perimeter, distance = t * perimeter, the eight
\* segments and the walk along them.
RoundedRectWalk(hw, hh, r, edgeA, edgeB, arc, t, den) ==
    PointToGrid(
        WalkSegments(<<edgeA, arc, edgeB, arc, edgeA, arc, edgeB, arc>>, 0,
                     MulDiv(t, 2 * (edgeA + edgeB) + PiTimes(2 * r), den),
                     hw, hh, r))

\* Lines 172-177 and 183: half sizes, edge lengths and arc length for the
\* corner radius r.
RoundedRectOfRadius(w, h, r, t, den) ==
    RoundedRectWalk(w \div 2, h \div 2, r, w - 2 * r, h - 2 * r,
                    HalfPiTimes(r), t, den)

\* Line 174: cornerRadius = min(min(width, height) * 0.18, hw, hh).
CornerRadius(w, h) ==
    Min2(Min2(MulDiv(Min2(w, h), 18, 100), w \div 2), h \div 2)

RoundedRectOfSize(w, h, t, den) ==
    RoundedRectOfRadius(w, h, CornerRadius(w, h), t, den)

\* sampleRoundedRectanglePoint(width, height, t, target) for t = t / den.
sampleRoundedRectanglePoint(width, height, t, den) ==
    RoundedRectOfSize(width * FineOne, height * FineOne, t, den)

\* Lines 85-98: the shape the parameter t / den is sampled on; a square
\* is the rounded rectangle of width x width.
BaseShapePoint(frame, t, den) ==
    IF frame.type = "circle" THEN sampleCirclePoint(frame.radius, t, den)
    ELSE IF frame.type = "triangle"
    THEN sampleTrianglePoint(frame.width, frame.height, t, den)
    ELSE sampleRoundedRectanglePoint(frame.width,
                                     IF frame.type = "square"
                                     THEN frame.width ELSE frame.height,
                                     t, den)

\* sampleBaseFramePointLocal(frame, num / den, target)
sampleBaseFramePointLocal(frame, num, den) ==
    BaseShapePoint(frame, ReduceParam(num, den), den)

\* The divisions by an edge length or a corner radius that a sampler call
\* performs: none, or one with the divisor it divides by.  A length of the
\* model is below 1e-8 exactly when it is 0.
NoDivision == [divides |-> FALSE]

\* Mutant of GuardedDivisor: alpha = distance / length, without the test.
UnguardedDivisor(length) == [divides |-> TRUE, by |-> length]

\* Lines 119, 125 and 130: alpha = length <= 1e-8 ? 0 : distance / length.
GuardedDivisor(length) ==
    IF length <= 0 THEN NoDivision ELSE [divides |-> TRUE, by |-> length]

\* Lines 118-130: the edge the distance falls on is the one divided by.
TriangleDivisorAt(abLength, bcLength, caLength, distance) ==
    IF distance <= abLength THEN GuardedDivisor(abLength)
    ELSE IF distance - abLength <= bcLength THEN GuardedDivisor(bcLength)
    ELSE GuardedDivisor(caLength)

\* sampleTrianglePoint, lines 102-117, as far as the divisor goes.
TriangleDivisor(hw, hh, t, den) ==
    LET abLength == Hypot(-hw - 0, -hh - hh)
        bcLength == Hypot(hw + hw, -hh + hh)
        caLength == Hypot(0 - hw, hh + hh)
    IN  TriangleDivisorAt(abLength, bcLength, caLength,
                          MulDiv(t, abLength + bcLength + caLength, den))

\* Lines 192-198 and 220, 229, 238, 246: the segment the distance falls
\* into; on a corner arc (segments 1, 3, 5, 7) the angle is distance / r,
\* with no test of r.
RECURSIVE SegmentDivisor(_, _, _, _)
SegmentDivisor(segments, segmentIndex, distance, r) ==
    IF segmentIndex >= Len(segments) THEN NoDivision
    ELSE IF distance <= At(segments, segmentIndex)
    THEN IF segmentIndex % 2 = 1 THEN [divides |-> TRUE, by |-> r]
         ELSE NoDivision
    ELSE SegmentDivisor(segments, segmentIndex + 1,
                        distance - At(segments, segmentIndex), r)

\* sampleRoundedRectanglePoint, lines 172-198, as far as the divisor goes.
RoundedRectDivisor(w, h, t, den) ==
    LET r == CornerRadius(w, h)
        edgeA == w - 2 * r
        edgeB == h - 2 * r
        arc == HalfPiTimes(r)
    IN  SegmentDivisor(<<edgeA, arc, edgeB, arc, edgeA, arc, edgeB, arc>>, 0,
                       MulDiv(t, 2 * (edgeA + edgeB) + PiTimes(2 * r), den),
                       r)

\* sampleFramePointLocal(frame, num / den), as far as the divisor goes: the
\* circle and the spline divide by no length.
SampleFrameDivisor(frame, num, den) ==
    IF "controlPoints" \in DOMAIN frame /\ Len(frame.controlPoints) >= 4
    THEN NoDivision
    ELSE IF frame.type = "circle" THEN NoDivision
    ELSE IF frame.type = "triangle"
    THEN TriangleDivisor((frame.width * FineOne) \div 2,
                         (frame.height * FineOne) \div 2,
                         ReduceParam(num, den), den)
    ELSE RoundedRectDivisor(frame.width * FineOne,
                            (IF frame.type = "square"
                             THEN frame.width ELSE frame.height) * FineOne,
                            ReduceParam(num, den), den)

\* Lines 146-166: one coordinate of the Catmull-Rom segment at localT =
\* m / den, 0.5 * (2 p1 + (-p0 + p2) localT + (...) tt + (...) ttt).
CatmullRom(p0, p1, p2, p3, m, den) ==
    MulDiv(2 * p1 * den * den * den
             + (p2 - p0) * m * den * den
             + (2 * p0 - 5 * p1 + 4 * p2 - p3) * m * m * den
             + (3 * p1 - p0 - 3 * p2 + p3) * m * m * m,
           1, 2 * den * den * den)

\* Lines 137-168: segment = floor(scaled) % count, localT = m / den, and
\* the spline through p0..p3, for t = t / den.
CatmullRomAt(controlPoints, count, t, segment, m, den) ==
    [axis \in 1..3 |->
        CatmullRom(At(controlPoints, (segment - 1 + count) % count)[axis],
                   At(controlPoints, segment)[axis],
                   At(controlPoints, (segment + 1) % count)[axis],
                   At(controlPoints, (segment + 2) % count)[axis],
                   m, den)] \o <<>>

\* Lines 135-139, with t = t / den already reduced.
CatmullRomOfParam(controlPoints, count, t, den) ==
    CatmullRomAt(controlPoints, count, t, ((t * count) \div den) % count,
                 (t * count) % den, den)

\* sampleClosedCatmullRomPoint(controlPoints, num / den, target)
sampleClosedCatmullRomPoint(controlPoints, num, den) ==
    CatmullRomOfParam(controlPoints, Len(controlPoints),
                      ReduceParam(num, den), den)

\* sampleFramePointLocal(frame, num / den): the spline through the control
\* points when the frame has four or more of them, else the base shape.
SampleFramePointLocal(frame, num, den) ==
    IF "controlPoints" \in DOMAIN frame /\ Len(frame.controlPoints) >= 4
    THEN sampleClosedCatmullRomPoint(frame.controlPoints, num, den)
    ELSE sampleBaseFramePointLocal(frame, num, den)

\* buildDefaultControlPoints(frame, controlPointCount)
buildDefaultControlPoints(frame, controlPointCount) ==
    LET count == Max2(4, controlPointCount) IN
    [k \in 1..count |-> sampleBaseFramePointLocal(frame, k - 1, count)] \o <<>>

\* DEFAULT_CONTROL_POINT_COUNTS[type]
DefaultControlPointCount == 12

\* createDefaultFrameState(id, type); position, rotation and scale are
\* the identity pose and are kept by the frame's object.
createDefaultFrameState(id, type) ==
    LET frame == [id |-> id, type |-> type, radius |-> FixedOne,
                  width |-> 2 * FixedOne, height |-> (14 * FixedOne) \div 10,
                  boundarySamples |-> 64, controlPoints |-> <<>>]
    IN  [frame EXCEPT
            !.controlPoints =
                buildDefaultControlPoints(frame, DefaultControlPointCount)]

\* Vector3.applyMatrix4 with the frame object's world matrix: a translation
\* and a scale of +1 or -1 along x.
ApplyMatrix4(point, object) ==
    Vec(object.scaleX * point[1] + object.position[1],
        point[2] + object.position[2],
        point[3] + object.position[3])

\* sampleFrameBoundaryLocal(state, samples), each point mapped to world
\* space (filmTopology.ts lines 62-63): the points for i, i+1, ...
RECURSIVE WorldLoopFrom(_, _, _)
WorldLoopFrom(runtime, samples, i) ==
    IF i >= samples THEN <<>>
    ELSE <<ApplyMatrix4(SampleFramePointLocal(runtime.state, i, samples),
                        runtime.object)>>
           \o WorldLoopFrom(runtime, samples, i + 1)

WorldLoop(runtime, samples) == WorldLoopFrom(runtime, samples, 0)

-----------------------------------------------------------------------------
(* filmTopology.ts: mapIndex, findBestLoopAlignment, buildFilmTopology *)

\* Mutant of mapIndex: the reversed difference is made positive by its
\* absolute value.
mapIndexAbsolute(index, count, alignment) ==
    IF ~alignment.reverse
    THEN (index + alignment.shift) % count
    ELSE IF alignment.shift >= index
    THEN (alignment.shift - index) % count
    ELSE (index - alignment.shift) % count

\* mapIndex, lines 156-162.
mapIndex(index, count, alignment) ==
    IF ~alignment.reverse
    THEN (index + alignment.shift) % count
    ELSE (JsRem(alignment.shift - index, count) + count) % count

\* The error of one candidate alignment: the inner loop over i.
RECURSIVE AlignmentError(_, _, _, _)
AlignmentError(loopA, loopB, alignment, i) ==
    IF i >= Len(loopA) THEN 0
    ELSE DistanceToSquared(At(loopA, i),
                           At(loopB, mapIndex(i, Len(loopA), alignment)))
           + AlignmentError(loopA, loopB, alignment, i + 1)

\* The k-th candidate in the order the two loops visit them: reverse =
\* false for shift 0..count-1, then reverse = true for shift 0..count-1.
AlignmentCandidate(count, k) ==
    [reverse |-> k > count, shift |-> (k - 1) % count]

\* The errors of the candidates 1..2*count, in the order of the scan.
AlignmentErrors(loopA, loopB) ==
    [k \in 1..(2 * Len(loopA)) |->
        AlignmentError(loopA, loopB, AlignmentCandidate(Len(loopA), k), 0)]
      \o <<>>

\* Mutant of ScanCandidates: the comparison of line 146 is `<=`, so of the
\* candidates of least error the last one is kept.
RECURSIVE ScanCandidatesLastWins(_, _, _)
ScanCandidatesLastWins(errors, k, best) ==
    IF k > Len(errors) THEN best
    ELSE ScanCandidatesLastWins(errors, k + 1,
                                IF best = 0 \/ errors[k] <= errors[best]
                                THEN k ELSE best)

BestCandidateLastWins(errors) == ScanCandidatesLastWins(errors, 1, 0)

\* Lines 138-151: the scan over the candidates k, k+1, ...  best is the
\* candidate whose error is bestError, or 0 while bestError is
\* Number.POSITIVE_INFINITY; a candidate replaces it only when its error
\* is strictly smaller (line 146).
RECURSIVE ScanCandidates(_, _, _)
ScanCandidates(errors, k, best) ==
    IF k > Len(errors) THEN best
    ELSE ScanCandidates(errors, k + 1,
                        IF best = 0 \/ errors[k] < errors[best]
                        THEN k ELSE best)

\* The candidate the scan ends with, 0 if it saw none.
BestCandidate(errors) == ScanCandidates(errors, 1, 0)

\* bestAlignment starts as { reverse: false, shift: 0 } (line 135).
findBestLoopAlignment(loopA, loopB) ==
    LET best == BestCandidate(AlignmentErrors(loopA, loopB))
    IN  IF best = 0 THEN [reverse |-> FALSE, shift |-> 0]
        ELSE AlignmentCandidate(Len(loopA), best)

\* The empty result of lines 33-41.
EmptyTopology ==
    [threw |-> FALSE, positions |-> <<>>, indices |-> <<>>,
     boundaryConstraints |-> <<>>, sampleCount |-> 0, mstEdgeCount |-> 0]

\* Math.min(...frameRuntimes.map(r => r.state.boundarySamples))
RECURSIVE MinBoundarySamples(_, _)
MinBoundarySamples(frameRuntimes, k) ==
    IF k = Len(frameRuntimes) THEN frameRuntimes[k].state.boundarySamples
    ELSE Min2(frameRuntimes[k].state.boundarySamples,
              MinBoundarySamples(frameRuntimes, k + 1))

\* Mutant of SampleCountOf: the first frame's boundarySamples stands for
\* the minimum over the frames.
SampleCountOfFirstFrame(frameRuntimes) ==
    Max2(8, frameRuntimes[1].state.boundarySamples)

\* Line 44.
SampleCountOf(frameRuntimes) ==
    Max2(8, MinBoundarySamples(frameRuntimes, 1))

\* Mutant of SpanHalvesOf: Math.max(2, ...) is missing.
SpanHalvesOfNoFloor(options) ==
    IF options.defined THEN options.halves ELSE 2 * 24

\* Line 43: Math.max(2, options.spanSubdivisions ?? 24), in halves (the
\* option is a number h/2, or undefined).
SpanHalvesOf(options) ==
    Max2(2 * 2, IF options.defined THEN options.halves ELSE 2 * 24)

\* Mutant of PushLoop: the parameter recorded for sample i is that of
\* sample i + 1.
RECURSIVE PushLoopNextParam(_, _, _, _)
PushLoopNextParam(runtime, sampleCount, i, vertexCount) ==
    IF i >= sampleCount THEN <<>>
    ELSE <<[vertexIndex |-> vertexCount,
            frameId |-> runtime.id,
            curveParamT |-> [num |-> i + 1, den |-> sampleCount]]>>
           \o PushLoopNextParam(runtime, sampleCount, i + 1, vertexCount + 1)

\* Lines 67-75: the constraints of one frame's loop from sample i on;
\* vertexCount is positionsData.length / 3 when sample i is pushed, so
\* pushVertex returns it.
RECURSIVE PushLoop(_, _, _, _)
PushLoop(runtime, sampleCount, i, vertexCount) ==
    IF i >= sampleCount THEN <<>>
    ELSE <<[vertexIndex |-> vertexCount,
            frameId |-> runtime.id,
            curveParamT |-> [num |-> i, den |-> sampleCount]]>>
           \o PushLoop(runtime, sampleCount, i + 1, vertexCount + 1)

\* boundaryVertexIndices of a loop's constraints.
VertexIndicesOf(constraints) ==
    [k \in 1..Len(constraints) |-> constraints[k].vertexIndex] \o <<>>

\* Lines 59-79: the loop over the frames k, k+1, ...; the maps are keyed
\* by frame id (a later frame with the same id replaces an earlier one).
RECURSIVE SampleFrames(_, _, _, _)
SampleFrames(frameRuntimes, sampleCount, k, vertexCount) ==
    IF k > Len(frameRuntimes)
    THEN [positionsData |-> <<>>, boundaryConstraints |-> <<>>,
          loopByFrame |-> <<>>, boundaryIndexByFrame |-> <<>>,
          frameCenters |-> <<>>]
    ELSE LET runtime == frameRuntimes[k]
             worldLoop == WorldLoop(runtime, sampleCount)
             constraints == PushLoop(runtime, sampleCount, 0, vertexCount)
             rest == SampleFrames(frameRuntimes, sampleCount, k + 1,
                                  vertexCount + Len(worldLoop))
         IN  [positionsData |-> worldLoop \o rest.positionsData,
              boundaryConstraints |-> constraints \o rest.boundaryConstraints,
              loopByFrame |-> rest.loopByFrame @@ (runtime.id :> worldLoop),
              boundaryIndexByFrame |->
                  rest.boundaryIndexByFrame
                      @@ (runtime.id :> VertexIndicesOf(constraints)),
              frameCenters |->
                  rest.frameCenters @@ (runtime.id :> runtime.object.position)]

\* Vector3.lerp with alpha = step / spanSubdivisions.
Lerp(a, b, step, spanSubdivisions) ==
    Vec(a[1] + MulDiv(b[1] - a[1], step, spanSubdivisions),
        a[2] + MulDiv(b[2] - a[2], step, spanSubdivisions),
        a[3] + MulDiv(b[3] - a[3], step, spanSubdivisions))

\* new Array(n).fill(value)
Filled(n, value) == [k \in 1..n |-> value] \o <<>>

\* Mutant of FillSteps: the loop bound is spanSubdivisions - 1, so the last
\* interior column keeps its -1.
FillStepsShort(a, b, spanSubdivisions, vertexCount, row) ==
    [points |->
        [step \in 1..(spanSubdivisions - 2) |->
            Lerp(a, b, step, spanSubdivisions)] \o <<>>,
     row |->
        [k \in 1..Len(row) |->
            IF k - 1 \in 1..(spanSubdivisions - 2)
            THEN vertexCount + (k - 1) - 1
            ELSE row[k]] \o <<>>]

\* Lines 102-106: the interior columns of one grid row.  Step 1, 2, ...,
\* spanSubdivisions - 1 pushes the lerped point and stores the index
\* pushVertex returns, which is vertexCount + step - 1 when vertexCount is
\* positionsData.length / 3 before the loop.
FillSteps(a, b, spanSubdivisions, vertexCount, row) ==
    [points |->
        [step \in 1..(spanSubdivisions - 1) |->
            Lerp(a, b, step, spanSubdivisions)] \o <<>>,
     row |->
        [k \in 1..Len(row) |->
            IF k - 1 \in 1..(spanSubdivisions - 1)
            THEN vertexCount + (k - 1) - 1
            ELSE row[k]] \o <<>>]

\* Lines 97-107: the grid rows i, i+1, ...  A row is the array of the
\* columns 0..spanSubdivisions, -1 where nothing was stored.
RECURSIVE FillGrid(_, _, _, _, _, _, _, _)
FillGrid(loopA, loopB, boundaryA, boundaryB, alignment, spanSubdivisions, i, vertexCount) ==
    IF i >= Len(loopA) THEN [points |-> <<>>, grid |-> <<>>]
    ELSE LET mappedIndex == mapIndex(i, Len(loopA), alignment)
             row0 == [[Filled(spanSubdivisions + 1, -1)
                         EXCEPT ![1] = At(boundaryA, i)]
                         EXCEPT ![spanSubdivisions + 1] = At(boundaryB, mappedIndex)]
             filled == FillSteps(At(loopA, i), At(loopB, mappedIndex),
                                 spanSubdivisions, vertexCount, row0)
             rest == FillGrid(loopA, loopB, boundaryA, boundaryB, alignment,
                              spanSubdivisions, i + 1,
                              vertexCount + Len(filled.points))
         IN  [points |-> filled.points \o rest.points,
              grid |-> <<filled.row>> \o rest.grid]

\* Mutant of CellTriangles: the last row is not joined to the first.
CellTrianglesNoWrap(grid, i, step) ==
    LET next == Min2(i + 1, Len(grid) - 1)
        a == At(At(grid, i), step)
        b == At(At(grid, next), step)
        c == At(At(grid, next), step + 1)
        d == At(At(grid, i), step + 1)
    IN  <<a, b, c, a, c, d>>

\* Lines 113-119: the six indices pushed for cell (i, step).
CellTriangles(grid, i, step) ==
    LET next == (i + 1) % Len(grid)
        a == At(At(grid, i), step)
        b == At(At(grid, next), step)
        c == At(At(grid, next), step + 1)
        d == At(At(grid, i), step + 1)
    IN  <<a, b, c, a, c, d>>

\* Lines 111-119: the indices pushed for row i, cell after cell.
EmitRow(grid, spanSubdivisions, i) ==
    [j \in 1..(6 * spanSubdivisions) |->
        CellTriangles(grid, i, (j - 1) \div 6)[((j - 1) % 6) + 1]] \o <<>>

\* Lines 109-120.
RECURSIVE EmitTriangles(_, _, _)
EmitTriangles(grid, spanSubdivisions, i) ==
    IF i >= Len(grid) THEN <<>>
    ELSE EmitRow(grid, spanSubdivisions, i)
           \o EmitTriangles(grid, spanSubdivisions, i + 1)

\* Lines 84-121: the strips of the MST edges k, k+1, ...: the vertices and
\* the indices they add.
RECURSIVE BuildStrips(_, _, _, _, _)
BuildStrips(mstEdges, sampled, spanSubdivisions, k, vertexCount) ==
    IF k > Len(mstEdges) THEN [points |-> <<>>, indices |-> <<>>]
    ELSE LET edge == mstEdges[k] IN
         IF edge.from \notin DOMAIN sampled.loopByFrame
               \/ edge.to \notin DOMAIN sampled.loopByFrame
         THEN BuildStrips(mstEdges, sampled, spanSubdivisions, k + 1, vertexCount)
         ELSE LET loopA == sampled.loopByFrame[edge.from]
                  loopB == sampled.loopByFrame[edge.to]
                  boundaryA == sampled.boundaryIndexByFrame[edge.from]
                  boundaryB == sampled.boundaryIndexByFrame[edge.to]
                  alignment == findBestLoopAlignment(loopA, loopB)
                  filled == FillGrid(loopA, loopB, boundaryA, boundaryB,
                                     alignment, spanSubdivisions, 0, vertexCount)
                  triangles == EmitTriangles(filled.grid, spanSubdivisions, 0)
                  rest == BuildStrips(mstEdges, sampled, spanSubdivisions, k + 1,
                                      vertexCount + Len(filled.points))
              IN  [points |-> filled.points \o rest.points,
                   indices |-> triangles \o rest.indices]

\* Lines 43-129 of buildFilmTopology, reached with two or more frames.
\* threw: `new Array(n)` raises a RangeError when spanSubdivisions + 1 is
\* not an integer.  indices holds the numbers handed to the Uint32Array
\* (which keeps 0..2^32-1 as they are and turns -1 into 2^32-1, beyond
\* every vertex count).
BuildBridgedTopology(frameRuntimes, options) ==
    LET spanHalves == SpanHalvesOf(options)
        spanSubdivisions == spanHalves \div 2
        sampleCount == SampleCountOf(frameRuntimes)
        sampled == SampleFrames(frameRuntimes, sampleCount, 1, 0)
        frameIds == [k \in 1..Len(frameRuntimes) |-> frameRuntimes[k].id]
        mstEdges == buildMst(frameIds, sampled.frameCenters)
        strips == BuildStrips(mstEdges, sampled, spanSubdivisions, 1,
                              Len(sampled.positionsData))
    IN  IF spanHalves % 2 # 0 /\ Len(mstEdges) > 0
        THEN [EmptyTopology EXCEPT !.threw = TRUE]
        ELSE [threw |-> FALSE,
              positions |-> sampled.positionsData \o strips.points,
              indices |-> strips.indices,
              boundaryConstraints |-> sampled.boundaryConstraints,
              sampleCount |-> sampleCount,
              mstEdgeCount |-> Len(mstEdges)]

\* Mutant of buildFilmTopology: the guard of line 33 reads `< 1`.
buildFilmTopologyGuardOne(frameRuntimes, options) ==
    IF Len(frameRuntimes) < 1 THEN EmptyTopology
    ELSE BuildBridgedTopology(frameRuntimes, options)

\* buildFilmTopology(frameRuntimes, options)
buildFilmTopology(frameRuntimes, options) ==
    IF Len(frameRuntimes) < 2 THEN EmptyTopology
    ELSE BuildBridgedTopology(frameRuntimes, options)

-----------------------------------------------------------------------------
(* solver.ts: createFilmState, createSolverContext, projectBoundaries,    *)
(* accumulateAreaGradient, runRelaxationStep, resetFilmState.  positions,  *)
(* velocities and gradient hold one Vector3 per vertex.                    *)

\* DEFAULT_SOLVER_CONFIG; the fractional settings count in 1 / ConfigOne.
DefaultSubsteps == 4
DefaultStepSize == 14
DefaultDamping == 92
DefaultLaplacianWeight == 20

DEFAULT_SOLVER_CONFIG ==
    [substeps |-> DefaultSubsteps,
     stepSize |-> (DefaultStepSize * ConfigOne) \div 100,
     damping |-> (DefaultDamping * ConfigOne) \div 100,
     laplacianWeight |-> (DefaultLaplacianWeight * ConfigOne) \div 100,
     relaxationStrength |-> ConfigOne,
     shapeRetention |-> 0]

\* EPSILON = 1e-8 is 1 / EpsilonInverse.
EpsilonInverse == 100000000

ZeroVec == Vec(0, 0, 0)

\* v * (num / den), component by component.
VScale(v, num, den) ==
    Vec(MulDiv(v[1], num, den), MulDiv(v[2], num, den), MulDiv(v[3], num, den))

Cross(a, b) ==
    Vec(a[2] * b[3] - a[3] * b[2],
        a[3] * b[1] - a[1] * b[3],
        a[1] * b[2] - a[2] * b[1])

\* seq[lo] + ... + seq[hi] of a sequence of vectors.
RECURSIVE SumVecs(_, _, _)
SumVecs(seq, lo, hi) ==
    IF lo > hi THEN ZeroVec
    ELSE IF lo = hi THEN seq[lo]
    ELSE VAdd(SumVecs(seq, lo, (lo + hi) \div 2),
              SumVecs(seq, (lo + hi) \div 2 + 1, hi))

\* { ...DEFAULT_SOLVER_CONFIG, ...solverConfig }
MergeConfig(solverConfig) ==
    [name \in DOMAIN DEFAULT_SOLVER_CONFIG |->
        IF name \in DOMAIN solverConfig THEN solverConfig[name]
        ELSE DEFAULT_SOLVER_CONFIG[name]]

\* Mutant of createFilmState: restPositions is the positions array itself,
\* not a second slice.
createFilmStateOneSlice(topology, solverConfig) ==
    [positions |-> topology.positions,
     velocities |-> Filled(Len(topology.positions), ZeroVec),
     indices |-> topology.indices,
     boundaryConstraints |-> topology.boundaryConstraints,
     restPositions |-> topology.positions,
     restIsPositions |-> TRUE,
     solverConfig |-> MergeConfig(solverConfig)]

\* createFilmState, lines 26-41.  positions and restPositions are two
\* slice() copies of topology.positions, so two buffers: restIsPositions
\* tells whether the two fields name one Float32Array.
createFilmState(topology, solverConfig) ==
    [positions |-> topology.positions,
     velocities |-> Filled(Len(topology.positions), ZeroVec),
     indices |-> topology.indices,
     boundaryConstraints |-> topology.boundaryConstraints,
     restPositions |-> topology.positions,
     restIsPositions |-> FALSE,
     solverConfig |-> MergeConfig(solverConfig)]

\* The film state as its arrays hold it after writes to positions: a write
\* to a Float32Array is a write to every field that names it.
WrittenThrough(filmState) ==
    IF filmState.restIsPositions
    THEN [filmState EXCEPT !.restPositions = filmState.positions]
    ELSE filmState

\* The triangle t (0-based) of an index buffer: indices[3t], [3t+1], [3t+2].
TriangleCount(indices) == Len(indices) \div 3

Triangle(indices, t) ==
    [a |-> At(indices, 3 * t), b |-> At(indices, 3 * t + 1),
     c |-> At(indices, 3 * t + 2)]

\* Lines 52-57: what triangle tri adds to the neighbour set of vertex v, in
\* the order of the add calls.
NeighborAdds(tri, v) ==
    (IF tri.a = v THEN <<tri.b, tri.c>> ELSE <<>>)
        \o (IF tri.b = v THEN <<tri.a, tri.c>> ELSE <<>>)
        \o (IF tri.c = v THEN <<tri.a, tri.b>> ELSE <<>>)

\* The add calls on the neighbour set of v made by the triangles lo..hi.
RECURSIVE NeighborAddsOf(_, _, _, _)
NeighborAddsOf(indices, v, lo, hi) ==
    IF lo > hi THEN <<>>
    ELSE IF lo = hi THEN NeighborAdds(Triangle(indices, lo), v)
    ELSE NeighborAddsOf(indices, v, lo, (lo + hi) \div 2)
           \o NeighborAddsOf(indices, v, (lo + hi) \div 2 + 1, hi)

\* Array.from(set) of a Set filled by the add calls of seq: the distinct
\* values in the order of their first insertion.
SetToArray(seq) ==
    LET first == {k \in 1..Len(seq) : \A j \in 1..(k - 1) : seq[j] # seq[k]}
    IN  [n \in 1..Cardinality(first) |->
            seq[CHOOSE k \in first :
                    Cardinality({j \in first : j <= k}) = n]] \o <<>>

\* Lines 48-57: neighbors[a] is undefined for an index a that is not below
\* vertexCount, and neighbors[a].add raises a TypeError.
IndexBeyondVertices(filmState) ==
    \E k \in 1..Len(filmState.indices) :
        filmState.indices[k] >= Len(filmState.positions)

\* createSolverContext(filmState): the context, or threw when the call
\* raises.
createSolverContext(filmState) ==
    LET vertexCount == Len(filmState.positions) IN
    IF IndexBeyondVertices(filmState) THEN [threw |-> TRUE]
    ELSE
    [threw |-> FALSE,
     boundaryMask |->
        [n \in 1..vertexCount |->
            IF \E k \in 1..Len(filmState.boundaryConstraints) :
                   filmState.boundaryConstraints[k].vertexIndex = n - 1
            THEN 1 ELSE 0] \o <<>>,
     neighbors |->
        [n \in 1..vertexCount |->
            SetToArray(NeighborAddsOf(filmState.indices, n - 1, 0,
                                      TriangleCount(filmState.indices) - 1))]
          \o <<>>,
     gradient |-> Filled(vertexCount, ZeroVec),
     scratchPositions |-> Filled(vertexCount, ZeroVec),
     scratchVelocities |-> Filled(vertexCount, ZeroVec)]

\* The BoundarySampler of the solver test (buildBoundarySampler) and of
\* the app (sampleConstraintPoint): null when the frame map has no frame
\* of the constraint's id, else the frame's curve point in world space.
BoundarySampler(frames, constraint) ==
    IF constraint.frameId \notin DOMAIN frames THEN [present |-> FALSE]
    ELSE LET frame == frames[constraint.frameId] IN
         [present |-> TRUE,
          point |-> ApplyMatrix4(
                        SampleFramePointLocal(frame.state,
                                              constraint.curveParamT.num,
                                              constraint.curveParamT.den),
                        frame.object)]

\* Mutant of ProjectOne: the velocity of the projected vertex is kept.
ProjectOneKeepVelocity(filmState, frames, constraint) ==
    LET point == BoundarySampler(frames, constraint) IN
    IF ~point.present THEN filmState
    ELSE [filmState EXCEPT !.positions[constraint.vertexIndex + 1] = point.point]

\* Mutant of ProjectOne: a missing point is written as the origin.
ProjectOneOriginWhenMissing(filmState, frames, constraint) ==
    LET point == BoundarySampler(frames, constraint) IN
    [filmState EXCEPT
        !.positions[constraint.vertexIndex + 1] =
            IF point.present THEN point.point ELSE ZeroVec,
        !.velocities[constraint.vertexIndex + 1] = ZeroVec]

\* Lines 202-214: one iteration of the loop of projectBoundaries.
ProjectOne(filmState, frames, constraint) ==
    LET point == BoundarySampler(frames, constraint) IN
    IF ~point.present THEN filmState
    ELSE [filmState EXCEPT
             !.positions[constraint.vertexIndex + 1] = point.point,
             !.velocities[constraint.vertexIndex + 1] = ZeroVec]

\* The iterations for the constraints lo..hi, in order.
RECURSIVE ProjectRange(_, _, _, _)
ProjectRange(filmState, frames, lo, hi) ==
    IF lo > hi THEN filmState
    ELSE IF lo = hi
    THEN ProjectOne(filmState, frames, filmState.boundaryConstraints[lo])
    ELSE AndThen(ProjectRange(filmState, frames, lo, (lo + hi) \div 2),
                 LAMBDA done :
                     ProjectRange(done, frames, (lo + hi) \div 2 + 1, hi))

projectBoundaries(filmState, frames) ==
    ProjectRange(filmState, frames, 1, Len(filmState.boundaryConstraints))

\* Scale of the components of the unit normal.
NormalOne == FixedOne * FixedOne

\* normalLength < EPSILON, for a normal length counted in 1 / NormalOne.
BelowEpsilon(normalLength) ==
    normalLength < (NormalOne + EpsilonInverse - 1) \div EpsilonInverse

\* 0.5 * (edge x unitNormal)
HalfCross(edge, unitNormal) == VScale(Cross(edge, unitNormal), 1, 2 * NormalOne)

\* Lines 230-280: the gradient of one triangle's area at its corners.
TriangleGradient(positions, tri) ==
    LET a == At(positions, tri.a)
        b == At(positions, tri.b)
        c == At(positions, tri.c)
        n == Cross(VSub(b, a), VSub(c, a))
        normalLength == Sqrt(n[1] * n[1] + n[2] * n[2] + n[3] * n[3])
    IN  IF BelowEpsilon(normalLength)
        THEN [skipped |-> TRUE, gradA |-> ZeroVec, gradB |-> ZeroVec,
              gradC |-> ZeroVec]
        ELSE LET un == VScale(n, NormalOne, normalLength) IN
             [skipped |-> FALSE,
              gradA |-> HalfCross(VSub(b, c), un),
              gradB |-> HalfCross(VSub(c, a), un),
              gradC |-> HalfCross(VSub(a, b), un)]

\* Lines 282-292: what one triangle adds to gradient[v].
GradientAt(grad, tri, v) ==
    VAdd(IF tri.a = v THEN grad.gradA ELSE ZeroVec,
         VAdd(IF tri.b = v THEN grad.gradB ELSE ZeroVec,
              IF tri.c = v THEN grad.gradC ELSE ZeroVec))

\* gradient.fill(0) followed by accumulateAreaGradient: the new gradient.
accumulateAreaGradient(filmState) ==
    LET count == TriangleCount(filmState.indices)
        grads == [t \in 1..count |->
                     TriangleGradient(filmState.positions,
                                      Triangle(filmState.indices, t - 1))]
                   \o <<>>
    IN  [n \in 1..Len(filmState.positions) |->
            SumVecs([t \in 1..count |->
                        GradientAt(grads[t],
                                   Triangle(filmState.indices, t - 1), n - 1)]
                      \o <<>>, 1, count)] \o <<>>

\* Lines 113-129: the umbrella Laplacian at p, read from positions.
Laplacian(positions, neighbors, p) ==
    IF Len(neighbors) > 0
    THEN VSub(VScale(SumVecs([k \in 1..Len(neighbors) |->
                                 At(positions, neighbors[k])] \o <<>>,
                             1, Len(neighbors)),
                     1, Len(neighbors)),
              p)
    ELSE ZeroVec

\* Lines 101-145 for one free vertex: the next velocity and position, with
\* positions and velocities the arrays the loop body reads.
FreeVertexUpdate(positions, velocities, filmState, solverContext, vertexIndex) ==
    LET config == filmState.solverConfig
        forceScale == Max2(0, config.relaxationStrength)
        retentionScale == Max2(0, config.shapeRetention)
        p == At(positions, vertexIndex)
        r == At(filmState.restPositions, vertexIndex)
        g == At(solverContext.gradient, vertexIndex)
        lap == Laplacian(positions, At(solverContext.neighbors, vertexIndex), p)
        accel == VAdd(VScale(VAdd(VSub(ZeroVec, g),
                                  VScale(lap, config.laplacianWeight, ConfigOne)),
                             forceScale, ConfigOne),
                      VScale(VSub(r, p), retentionScale, ConfigOne))
        nextVelocity == VAdd(VScale(At(velocities, vertexIndex),
                                    config.damping, ConfigOne),
                             VScale(accel, config.stepSize, ConfigOne))
    IN  [velocity |-> nextVelocity,
         position |-> VAdd(p, VScale(nextVelocity, config.stepSize, ConfigOne))]

\* Mutant of VisitVertex: the loop body reads scratchPositions and
\* scratchVelocities, which hold the vertices already visited.
VisitVertexReadingScratch(filmState, solverContext, vertexIndex) ==
    IF At(solverContext.boundaryMask, vertexIndex) = 1 THEN solverContext
    ELSE LET next == FreeVertexUpdate(solverContext.scratchPositions,
                                      solverContext.scratchVelocities,
                                      filmState, solverContext, vertexIndex)
         IN  [solverContext EXCEPT
                 !.scratchVelocities[vertexIndex + 1] = next.velocity,
                 !.scratchPositions[vertexIndex + 1] = next.position]

\* Lines 96-146: one iteration of the vertex loop.  It reads
\* filmState.positions and filmState.velocities and writes the scratch
\* arrays of the solver context.
VisitVertex(filmState, solverContext, vertexIndex) ==
    IF At(solverContext.boundaryMask, vertexIndex) = 1 THEN solverContext
    ELSE LET next == FreeVertexUpdate(filmState.positions,
                                      filmState.velocities,
                                      filmState, solverContext, vertexIndex)
         IN  [solverContext EXCEPT
                 !.scratchVelocities[vertexIndex + 1] = next.velocity,
                 !.scratchPositions[vertexIndex + 1] = next.position]

\* The iterations for order[lo], ..., order[hi], one after the other.
RECURSIVE VisitRange(_, _, _, _, _)
VisitRange(filmState, solverContext, order, lo, hi) ==
    IF lo > hi THEN solverContext
    ELSE IF lo = hi THEN VisitVertex(filmState, solverContext, order[lo])
    ELSE AndThen(VisitRange(filmState, solverContext, order, lo,
                            (lo + hi) \div 2),
                 LAMBDA visited :
                     VisitRange(filmState, visited, order,
                                (lo + hi) \div 2 + 1, hi))

\* vertexIndex = 0, 1, ..., vertexCount - 1
VertexOrder(vertexCount) == [n \in 1..vertexCount |-> n - 1] \o <<>>

\* Lines 89-93: the gradient and the scratch arrays before the vertex loop.
PrepareContext(projected, solverContext) ==
    [solverContext EXCEPT
        !.gradient = accumulateAreaGradient(projected),
        !.scratchPositions = projected.positions,
        !.scratchVelocities = projected.velocities]

\* Mutant of FinishSubstep: the boundary is not projected again.
FinishSubstepNoReprojection(projected, visited, frames) ==
    [filmState |-> [projected EXCEPT
                       !.positions = visited.scratchPositions,
                       !.velocities = visited.scratchVelocities],
     solverContext |-> visited,
     projected |-> projected,
     ran |-> TRUE,
     samplerCalls |-> Len(projected.boundaryConstraints)]

\* Lines 148-150: the scratch arrays are copied back and the boundary is
\* projected again.  samplerCalls counts the calls of boundarySampler in
\* the substep: projectBoundaries calls it once for every constraint
\* (line 202), and a substep projects twice (lines 88 and 150).
FinishSubstep(projected, visited, frames) ==
    [filmState |->
        projectBoundaries([projected EXCEPT
                              !.positions = visited.scratchPositions,
                              !.velocities = visited.scratchVelocities],
                          frames),
     solverContext |-> visited,
     projected |-> projected,
     ran |-> TRUE,
     samplerCalls |-> 2 * Len(projected.boundaryConstraints)]

\* Lines 88-150: one substep.  projected is the film state after the
\* first projectBoundaries, kept for the statements about the step.
RunSubstep(filmState, solverContext, frames) ==
    AndThen(projectBoundaries(filmState, frames), LAMBDA projected :
    AndThen(PrepareContext(projected, solverContext), LAMBDA prepared :
    AndThen(VisitRange(projected, prepared,
                       VertexOrder(Len(projected.positions)),
                       1, Len(projected.positions)), LAMBDA visited :
    FinishSubstep(projected, visited, frames))))

\* Lines 87-151: the substeps substep, substep + 1, ...
RECURSIVE RunSubsteps(_, _, _)
RunSubsteps(run, frames, substep) ==
    IF substep >= run.filmState.solverConfig.substeps THEN run
    ELSE AndThen(RunSubstep(run.filmState, run.solverContext, frames),
                 LAMBDA next :
                     RunSubsteps([next EXCEPT
                                     !.samplerCalls = @ + run.samplerCalls],
                                 frames, substep + 1))

\* The outcome of a call in which no substep has run.
Untouched(filmState, solverContext) ==
    [filmState |-> filmState, solverContext |-> solverContext,
     projected |-> filmState, ran |-> FALSE, samplerCalls |-> 0]

\* Mutant of runRelaxationStep: the guard of lines 80-82 is missing.
runRelaxationStepNoGuard(filmState, solverContext, frames) ==
    RunSubsteps(Untouched(filmState, solverContext), frames, 0)

\* runRelaxationStep(filmState, solverContext, boundarySampler): the film
\* state and solver context it leaves; ran tells whether a substep ran.
runRelaxationStep(filmState, solverContext, frames) ==
    IF Len(filmState.indices) = 0 THEN Untouched(filmState, solverContext)
    ELSE AndThen(RunSubsteps(Untouched(filmState, solverContext), frames, 0),
                 LAMBDA run :
                     [run EXCEPT !.filmState = WrittenThrough(@)])

\* Mutant of resetFilmState: the velocities are left as they are.
resetFilmStateKeepVelocities(filmState) ==
    [filmState EXCEPT !.positions = filmState.restPositions]

resetFilmState(filmState) ==
    [filmState EXCEPT
        !.positions = filmState.restPositions,
        !.velocities = Filled(Len(filmState.velocities), ZeroVec)]

-----------------------------------------------------------------------------
(* buildMst harness: the inputs are drawn in Init, the call is one action *)

\* The harnesses at rest; NoRuntime is filmRuntime = null.
TopoIdle ==
    /\ topoFrames = <<>>
    /\ topoOptions = [defined |-> FALSE, halves |-> 0]
    /\ topoResult = "none"
    /\ topoCalled = FALSE

MstIdle ==
    /\ mstFrameIds = <<>>
    /\ mstCenters = <<>>
    /\ mstResult = "none"
    /\ mstParent = <<>>
    /\ mstCalled = FALSE

SolverIdle ==
    /\ solFilmState = "none"
    /\ solContext = "none"
    /\ solFrames = <<>>
    /\ solLast = [op |-> "idle", ran |-> FALSE]
    /\ solOps = 0

NoRuntime == [present |-> FALSE]

\* null, for a frame id: the ids of the frames are frame-1, frame-2, ...
NullId == 0

NoControlPoint == [present |-> FALSE]

\* selectedFrameId, pointEditFrameId and selectedControlPoint as the field
\* initialisers leave them.
NoSelection ==
    [selectedFrameId |-> NullId, pointEditFrameId |-> NullId,
     selectedControlPoint |-> NoControlPoint]

\* The four TransformControls of the constructor: transformControls
\* (translate, rotate, scale) and controlPointTransformControl.
TransformControls == {"translate", "rotate", "scale"}

ControlPointTransformControl == "controlPoint"

Controls == TransformControls \cup {ControlPointTransformControl}

\* No control drags, isTransformDragging = false.
NoDrag == [dragging |-> {}, isTransformDragging |-> FALSE]

AppIdle ==
    /\ appDrag = NoDrag
    /\ appFrameIds = <<>>
    /\ appFrameIdCounter = 0
    /\ appRuntime = NoRuntime
    /\ appRebuilds = 0
    /\ appStepped = [by |-> "none"]
    /\ appDisposed = FALSE
    /\ appSelection = NoSelection
    /\ appClipboard = FALSE
    /\ appEvent = [type |-> "none"]

FramesIdle ==
    /\ frmFrame = [present |-> FALSE]
    /\ frmPoints = <<>>
    /\ frmDivisors = <<>>
    /\ frmMoved = {}

MstIds == 1..MaxMstFrames

\* Lists of distinct ids in increasing order (the order of a Map filled
\* with ids from a counter).
RECURSIVE IncreasingList(_, _)
IncreasingList(S, from) ==
    IF from > MaxMstFrames THEN <<>>
    ELSE IF from \in S THEN <<from>> \o IncreasingList(S, from + 1)
    ELSE IncreasingList(S, from + 1)

CenterPoints ==
    {Vec(x * FixedOne, y * FixedOne, 0) : x \in 0..MaxCoord, y \in 0..1}

MstInit ==
    /\ \E S \in SUBSET MstIds :
         /\ mstFrameIds = IncreasingList(S, 1)
         /\ \E D \in {S, S \ {MaxMstFrames}} : mstCenters \in [D -> CenterPoints]
    /\ mstResult = "none"
    /\ mstParent = <<>>
    /\ mstCalled = FALSE
    /\ TopoIdle
    /\ SolverIdle
    /\ AppIdle
    /\ FramesIdle

BuildMstCall ==
    /\ ~mstCalled
    /\ LET run == BuildMstRun(mstFrameIds, mstCenters) IN
         /\ mstResult' = run.edges
         /\ mstParent' = run.parent
    /\ mstCalled' = TRUE
    /\ UNCHANGED <<mstFrameIds, mstCenters>>
    /\ UNCHANGED <<topoVars, solverVars, appVars, frameVars>>

MstNext == BuildMstCall

SpecMst == MstInit /\ [][MstNext]_vars

-----------------------------------------------------------------------------
(* buildFilmTopology harness *)

\* A circle frame as the tests build it: createDefaultFrameState plus an
\* Object3D carrying the world pose.
CircleRuntime(id, boundarySamples, position, scaleX) ==
    [id |-> id,
     state |-> [type |-> "circle", radius |-> FixedOne,
                boundarySamples |-> boundarySamples],
     object |-> [position |-> position, scaleX |-> scaleX]]

\* Frame poses: two coaxial places two units apart; mirrored or not.
TopoPositions == {Vec(0, 0, 0), Vec(0, 0, 2 * FixedOne)}

SampleChoices == {MaxSamples - 3, MaxSamples}

\* A frame is plain with either sample count, or mirrored along x (its
\* loop then runs the other way round) with the larger one.
FrameStyles ==
    {[boundarySamples |-> n, scaleX |-> 1] : n \in SampleChoices}
        \cup {[boundarySamples |-> MaxSamples, scaleX |-> -1]}

RuntimeChoices(id) ==
    {CircleRuntime(id, st.boundarySamples, p, st.scaleX) :
        st \in FrameStyles, p \in TopoPositions}

\* Lists of frames with ids 1..n.
RECURSIVE RuntimeLists(_)
RuntimeLists(n) ==
    IF n = 0 THEN {<<>>}
    ELSE {Append(l, r) : l \in RuntimeLists(n - 1), r \in RuntimeChoices(n)}

SpanOptions ==
    {[defined |-> FALSE, halves |-> 0]}
        \cup {[defined |-> TRUE, halves |-> h] :
                 h \in {0, 2 * MaxSpan - 1, 2 * MaxSpan}}

TopoInit ==
    /\ \E n \in 0..MaxTopoFrames : topoFrames \in RuntimeLists(n)
    /\ topoOptions \in SpanOptions
    /\ topoResult = "none"
    /\ topoCalled = FALSE
    /\ MstIdle
    /\ SolverIdle
    /\ AppIdle
    /\ FramesIdle

BuildFilmTopologyCall ==
    /\ ~topoCalled
    /\ topoResult' = buildFilmTopology(topoFrames, topoOptions)
    /\ topoCalled' = TRUE
    /\ UNCHANGED <<topoFrames, topoOptions>>
    /\ UNCHANGED <<mstVars, solverVars, appVars, frameVars>>

TopoNext == BuildFilmTopologyCall

SpecTopo == TopoInit /\ [][TopoNext]_vars

-----------------------------------------------------------------------------
(* Solver harness: a film between two circle frames, as in solver.test.ts; *)
(* the frames the sampler reads can be moved and removed between steps.    *)

\* The two frames the film is built from.
SolverRuntimes ==
    <<CircleRuntime(1, 8, Vec(0, 0, 0), 1),
      CircleRuntime(2, 8, Vec(0, 0, 2 * FixedOne), 1)>>

\* new Map(frameRuntimes.map((runtime) => [runtime.id, runtime]))
FrameMap(frameRuntimes) ==
    [id \in {frameRuntimes[k].id : k \in 1..Len(frameRuntimes)} |->
        frameRuntimes[CHOOSE k \in 1..Len(frameRuntimes) :
                          /\ frameRuntimes[k].id = id
                          /\ \A j \in (k + 1)..Len(frameRuntimes) :
                               frameRuntimes[j].id # id]]

\* The places a frame is dragged between: where it was built, and half a
\* unit aside.
FramePlaces(id) ==
    LET home == SolverRuntimes[id].object.position
    IN  {home, VAdd(home, Vec(FixedOne \div 2, 0, 0))}

\* The topologies a film state is created from: the film between the two
\* frames, the result for one frame alone, a result whose loops are not
\* bridged (vertices and boundary constraints, no triangle), and one
\* whose first triangle names a vertex that does not exist.
SolverTopologies ==
    LET bridged == buildFilmTopology(SolverRuntimes,
                                     [defined |-> TRUE, halves |-> 2 * 2])
    IN  {bridged,
         buildFilmTopology(SubSeq(SolverRuntimes, 1, 1),
                           [defined |-> TRUE, halves |-> 2 * 2]),
         [bridged EXCEPT !.indices = <<>>, !.mstEdgeCount = 0],
         [bridged EXCEPT !.indices[1] = Len(bridged.positions)]}

SolverInit ==
    /\ \E substeps \in 0..MaxSubsteps, topology \in SolverTopologies :
         LET created == createFilmState(topology,
                                        [substeps |-> substeps,
                                         stepSize |-> ConfigOne])
         IN  /\ solFilmState = created
             /\ solContext = createSolverContext(created)
             /\ solLast = [op |-> "create", before |-> created,
                           projected |-> created, ran |-> FALSE]
    /\ solFrames = FrameMap(SolverRuntimes)
    /\ solOps = 0
    /\ MstIdle
    /\ TopoIdle
    /\ AppIdle
    /\ FramesIdle

\* runRelaxationStep(filmState, solverContext, boundarySampler)
RunRelaxationStep ==
    /\ solOps < MaxOps
    /\ ~solContext.threw
    /\ \E run \in {runRelaxationStep(solFilmState, solContext, solFrames)} :
         /\ solFilmState' = run.filmState
         /\ solContext' = run.solverContext
         /\ solLast' = [op |-> "step", before |-> solFilmState,
                        projected |-> run.projected, ran |-> run.ran,
                        samplerCalls |-> run.samplerCalls]
    /\ solOps' = solOps + 1
    /\ UNCHANGED solFrames
    /\ UNCHANGED <<mstVars, topoVars, appVars, frameVars>>

\* A frame object is moved (object.position.copy) between two steps.
MoveFrame ==
    /\ solOps < MaxOps
    /\ \E id \in DOMAIN solFrames :
         \E place \in FramePlaces(id) \ {solFrames[id].object.position} :
            solFrames' = [solFrames EXCEPT ![id].object.position = place]
    /\ solLast' = [op |-> "move", before |-> solFilmState,
                   projected |-> solFilmState, ran |-> FALSE]
    /\ solOps' = solOps + 1
    /\ UNCHANGED <<solFilmState, solContext>>
    /\ UNCHANGED <<mstVars, topoVars, appVars, frameVars>>

\* A frame leaves the sampler's map: the sampler returns null for its
\* constraints from now on.
RemoveSampledFrame ==
    /\ solOps < MaxOps
    /\ \E id \in DOMAIN solFrames :
         solFrames' = [other \in DOMAIN solFrames \ {id} |-> solFrames[other]]
    /\ solLast' = [op |-> "remove", before |-> solFilmState,
                   projected |-> solFilmState, ran |-> FALSE]
    /\ solOps' = solOps + 1
    /\ UNCHANGED <<solFilmState, solContext>>
    /\ UNCHANGED <<mstVars, topoVars, appVars, frameVars>>

\* The arrays are written directly, as solver.test.ts lines 59-61 do:
\* positions[0] += 0.4, positions[1] -= 0.2, velocities.fill(0.25).
MutateFilmState ==
    /\ solOps < MaxOps
    /\ solFilmState' =
         WrittenThrough(
         [solFilmState EXCEPT
             !.positions = IF Len(@) = 0 THEN @
                           ELSE [@ EXCEPT ![1] =
                                    VAdd(@, Vec((4 * FixedOne) \div 10,
                                                -((2 * FixedOne) \div 10), 0))],
             !.velocities = Filled(Len(solFilmState.velocities),
                                   Vec(FixedOne \div 4, FixedOne \div 4,
                                       FixedOne \div 4))])
    /\ solLast' = [op |-> "mutate", before |-> solFilmState,
                   projected |-> solFilmState, ran |-> FALSE]
    /\ solOps' = solOps + 1
    /\ UNCHANGED <<solContext, solFrames>>
    /\ UNCHANGED <<mstVars, topoVars, appVars, frameVars>>

\* resetFilmState(filmState)
ResetFilmState ==
    /\ solOps < MaxOps
    /\ solFilmState' = resetFilmState(solFilmState)
    /\ solLast' = [op |-> "reset", before |-> solFilmState,
                   projected |-> solFilmState, ran |-> FALSE]
    /\ solOps' = solOps + 1
    /\ UNCHANGED <<solContext, solFrames>>
    /\ UNCHANGED <<mstVars, topoVars, appVars, frameVars>>

SolverNext ==
    \/ RunRelaxationStep
    \/ MoveFrame
    \/ RemoveSampledFrame
    \/ MutateFilmState
    \/ ResetFilmState

SpecSolver == SolverInit /\ [][SolverNext]_vars

-----------------------------------------------------------------------------
(* Frame harness: a frame state is created, its control points are moved, *)
(* and its curve is sampled with sampleFramePointLocal.                   *)

FrameTypes == {"circle", "rectangle", "square", "triangle"}

\* createSoapFilmApp.ts lines 280-295: the frame state addFrame makes.
addFrameState(id, type) ==
    LET state == createDefaultFrameState(id, type) IN
    IF type = "circle" THEN [state EXCEPT !.radius = FixedOne]
    ELSE IF type = "rectangle"
    THEN [state EXCEPT !.width = 2 * FixedOne,
                       !.height = (14 * FixedOne) \div 10]
    ELSE IF type = "square"
    THEN [state EXCEPT !.width = 2 * FixedOne, !.height = 2 * FixedOne]
    ELSE [state EXCEPT !.width = 2 * FixedOne,
                       !.height = (18 * FixedOne) \div 10]

\* A frame description without control points, which the parameter type
\* of sampleFramePointLocal admits (controlPoints is optional).
plainFrameState(id, type) ==
    [id |-> id, type |-> type, radius |-> 2 * FixedOne,
     width |-> 3 * FixedOne, height |-> (16 * FixedOne) \div 10,
     boundarySamples |-> 64, controlPoints |-> <<>>]

FrameOrigins == {"addFrame", "createDefaultFrameState", "plain"}

FrameStateFrom(origin, type) ==
    IF origin = "addFrame" THEN addFrameState(1, type)
    ELSE IF origin = "createDefaultFrameState"
    THEN createDefaultFrameState(1, type)
    ELSE plainFrameState(1, type)

\* The parameters the curve is sampled at, as numerators over SampleDen.
SampleDen == 24

SampleNums == {0, SampleDen, 7, 7 - SampleDen, 19}

\* The control points that are moved and the z they are given
\* (frameSampling.test.ts lines 92-93).
ControlPointMoves ==
    {[index |-> 0, z |-> (7 * FixedOne) \div 10],
     [index |-> 3, z |-> -((9 * FixedOne) \div 20)]}

FramesInit ==
    /\ frmFrame = [present |-> FALSE]
    /\ frmPoints = <<>>
    /\ frmDivisors = <<>>
    /\ frmMoved = {}
    /\ MstIdle
    /\ TopoIdle
    /\ SolverIdle
    /\ AppIdle

\* A frame state is made; the frame made before is dropped.
CreateFrame ==
    /\ \E origin \in FrameOrigins, type \in FrameTypes :
         /\ frmFrame' = [present |-> TRUE, origin |-> origin,
                         state |-> FrameStateFrom(origin, type)]
    /\ frmPoints' = <<>>
    /\ frmDivisors' = <<>>
    /\ frmMoved' = {}
    /\ UNCHANGED <<mstVars, topoVars, solverVars, appVars>>

\* controlPoints[index].z = z
MoveControlPoint ==
    /\ frmFrame.present
    /\ \E move \in ControlPointMoves :
         /\ move.index \notin frmMoved
         /\ move.index < Len(frmFrame.state.controlPoints)
         /\ frmFrame' = [frmFrame EXCEPT
                            !.state.controlPoints[move.index + 1][3] = move.z]
         /\ frmMoved' = frmMoved \cup {move.index}
    /\ frmPoints' = <<>>
    /\ frmDivisors' = <<>>
    /\ UNCHANGED <<mstVars, topoVars, solverVars, appVars>>

\* state.width = 0 or state.height = 0: the frame is flattened.
ResizeFrame ==
    /\ frmFrame.present
    /\ \E field \in {"width", "height"} :
         /\ frmFrame.state[field] # 0
         /\ frmFrame' = [frmFrame EXCEPT !.state[field] = 0,
                                         !.origin = "resized"]
    /\ frmPoints' = <<>>
    /\ frmDivisors' = <<>>
    /\ UNCHANGED frmMoved
    /\ UNCHANGED <<mstVars, topoVars, solverVars, appVars>>

\* sampleFramePointLocal(frame, num / SampleDen)
SampleFramePoint ==
    /\ frmFrame.present
    /\ \E num \in SampleNums \ DOMAIN frmPoints :
         frmPoints' = [n \in DOMAIN frmPoints \cup {num} |->
                          IF n = num
                          THEN SampleFramePointLocal(frmFrame.state, num,
                                                     SampleDen)
                          ELSE frmPoints[n]]
         /\ frmDivisors' = [n \in DOMAIN frmPoints \cup {num} |->
                               IF n = num
                               THEN SampleFrameDivisor(frmFrame.state, num,
                                                       SampleDen)
                               ELSE frmDivisors[n]]
    /\ UNCHANGED <<frmFrame, frmMoved>>
    /\ UNCHANGED <<mstVars, topoVars, solverVars, appVars>>

FramesNext ==
    \/ CreateFrame
    \/ MoveControlPoint
    \/ ResizeFrame
    \/ SampleFramePoint

SpecFrames == FramesInit /\ [][FramesNext]_vars

-----------------------------------------------------------------------------
(* createSoapFilmApp.ts: the life cycle of the film runtime.  A FilmState  *)
(* or SolverContext object is told apart by the rebuildFilm call that      *)
(* created it; what the solver computes with them is the solver model's.   *)

\* Mutant of disposeFilmRuntime: the reference is not cleared.
disposeFilmRuntimeKeepsReference(runtime) == runtime

\* disposeFilmRuntime: the meshes leave the scene, filmRuntime = null.
disposeFilmRuntime(runtime) == NoRuntime

\* topology.indices.length === 0 for the frames of the app:
\* buildFilmTopology returns no index below two frames, and bridges the
\* frames with triangle strips from two frames on.
TopologyIsEmpty(frameIds) == Len(frameIds) < 2

\* rebuildFilm, lines 436-497: the runtime it leaves and the relaxation
\* step it runs; build numbers the call.  constraintFrames holds the
\* frameId of the boundary constraints: buildFilmTopology makes
\* constraints for every frame it is given, and for no other.  velocities
\* tells whether state.velocities is as fill(0) left it ("zero") or as a
\* relaxation step left it ("stepped"); the step that ends rebuildFilm
\* writes it.
rebuildFilm(frameIds, runtime, build) ==
    LET disposed == disposeFilmRuntime(runtime) IN
    IF TopologyIsEmpty(frameIds)
    THEN [runtime |-> disposed, stepped |-> [by |-> "none"]]
    ELSE LET filmState == [build |-> build, constraintFrames |-> frameIds]
             solverContext == [build |-> filmState.build]
             created == [present |-> TRUE, state |-> filmState,
                         solverContext |-> solverContext,
                         velocities |-> "stepped"]
         IN  [runtime |-> created,
              stepped |-> [by |-> "rebuildFilm", state |-> created.state,
                           solverContext |-> created.solverContext,
                           rebuilds |-> build, frames |-> frameIds]]

\* Mutant of updateTransformDraggingState: wasDragging is not consulted.
updateTransformDraggingStateIgnoresWasDragging(dragging, wasDragging, runtime) ==
    [isTransformDragging |-> dragging # {},
     runtime |-> IF dragging # {} /\ runtime.present
                 THEN [runtime EXCEPT !.velocities = "zero"]
                 ELSE runtime]

\* updateTransformDraggingState, lines 1417-1426: dragging is the set of
\* controls whose dragging property is true when the handler runs,
\* wasDragging is isTransformDragging as it finds it.
updateTransformDraggingState(dragging, wasDragging, runtime) ==
    LET isDragging ==
            \/ ControlPointTransformControl \in dragging
            \/ \E control \in TransformControls : control \in dragging
    IN  [isTransformDragging |-> isDragging,
         runtime |-> IF ~wasDragging /\ isDragging /\ runtime.present
                     THEN [runtime EXCEPT !.velocities = "zero"]
                     ELSE runtime]

\* frameEntities.get(frameId) finds a frame.
HasFrame(frameIds, frameId) ==
    \E n \in 1..Len(frameIds) : frameIds[n] = frameId

\* selectControlPoint, lines 1024-1050; every frame of the app carries the
\* control points createDefaultFrameState gave it.
selectControlPoint(selection, frameIds, frameId, controlPointIndex) ==
    IF frameId = NullId \/ controlPointIndex < 0
    THEN [selection EXCEPT !.selectedControlPoint = NoControlPoint]
    ELSE IF ~HasFrame(frameIds, frameId)
    THEN [selection EXCEPT !.selectedControlPoint = NoControlPoint]
    ELSE IF controlPointIndex >= DefaultControlPointCount
    THEN selection
    ELSE [selection EXCEPT !.selectedControlPoint =
              [present |-> TRUE, frameId |-> frameId,
               controlPointIndex |-> controlPointIndex]]

\* exitPointEditMode, lines 984-993.
exitPointEditMode(selection, frameIds) ==
    IF selection.pointEditFrameId = NullId
       /\ ~selection.selectedControlPoint.present
    THEN selection
    ELSE selectControlPoint([selection EXCEPT !.pointEditFrameId = NullId],
                            frameIds, NullId, -1)

\* Mutant of selectFrame: point edit mode is not left.
selectFrameKeepsPointEdit(selection, frameIds, frameId) ==
    [selection EXCEPT !.selectedFrameId = frameId]

\* selectFrame, lines 404-420.
selectFrame(selection, frameIds, frameId) ==
    IF selection.selectedFrameId = frameId
    THEN selection
    ELSE LET left == IF selection.pointEditFrameId # NullId
                        /\ selection.pointEditFrameId # frameId
                     THEN exitPointEditMode(selection, frameIds)
                     ELSE selection
         IN  [left EXCEPT !.selectedFrameId = frameId]

\* enterPointEditMode, lines 972-982.
enterPointEditMode(selection, frameIds, frameId) ==
    IF ~HasFrame(frameIds, frameId) \/ DefaultControlPointCount = 0
    THEN selection
    ELSE selectControlPoint([selection EXCEPT !.pointEditFrameId = frameId],
                            frameIds, frameId, 0)

\* Mutant of the Escape branch: the frame is deselected in either mode.
EscapeKeyAlwaysDeselects(selection, frameIds) ==
    selectFrame(selection, frameIds, NullId)

\* handleKeyDown, lines 952-958: the Escape branch.
EscapeKey(selection, frameIds) ==
    IF selection.pointEditFrameId # NullId
    THEN exitPointEditMode(selection, frameIds)
    ELSE selectFrame(selection, frameIds, NullId)

\* removeFrame, lines 380-385: what it does to the selection.
removeFrameSelection(selection, frameIds, frameId) ==
    LET left == IF selection.pointEditFrameId = frameId
                THEN exitPointEditMode(selection, frameIds)
                ELSE selection
    IN  IF left.selectedFrameId = frameId
        THEN selectFrame(left, frameIds, NullId)
        ELSE left

\* handlePointerDown, lines 870-903, for a click that hit the control point
\* controlPointIndex of the frame in point edit mode (hitControlPoint), or
\* else the frame line frameId, or nothing (NullId).
pointerDownSelection(selection, frameIds, hitControlPoint, frameId, controlPointIndex) ==
    IF selection.pointEditFrameId # NullId /\ hitControlPoint
    THEN selectControlPoint(selection, frameIds,
                            selection.pointEditFrameId, controlPointIndex)
    ELSE IF frameId = NullId
    THEN selectFrame(exitPointEditMode(selection, frameIds), frameIds, NullId)
    ELSE LET selected == selectFrame(selection, frameIds, frameId)
         IN  IF selected.pointEditFrameId = frameId
             THEN selectControlPoint(selected, frameIds, NullId, -1)
             ELSE selected

\* handleDoubleClick, lines 914-933, for a double click on the frame line
\* frameId, or on nothing (NullId).
doubleClickSelection(selection, frameIds, frameId) ==
    IF frameId = NullId
    THEN exitPointEditMode(selection, frameIds)
    ELSE LET selected == selectFrame(selection, frameIds, frameId)
         IN  IF selected.pointEditFrameId = frameId
             THEN exitPointEditMode(selected, frameIds)
             ELSE enterPointEditMode(selected, frameIds, frameId)

\* The app after its constructor: no frame, no film, the animation loop
\* scheduled.
AppInit ==
    /\ AppIdle
    /\ FramesIdle
    /\ MstIdle
    /\ TopoIdle
    /\ SolverIdle

\* The part of every handler that ends in rebuildFilm().
RebuildWith(frameIds) ==
    /\ appRebuilds < MaxRebuilds
    /\ appFrameIds' = frameIds
    /\ appRebuilds' = appRebuilds + 1
    /\ \E rebuilt \in {rebuildFilm(frameIds, appRuntime, appRebuilds + 1)} :
         /\ appRuntime' = rebuilt.runtime
         /\ appStepped' = IF rebuilt.stepped.by = "none" THEN appStepped
                          ELSE rebuilt.stepped

\* addFrameFromState, lines 303-310: the frame joins frameEntities, is
\* selected, and the film is rebuilt.
AddFrameFromState ==
    /\ Len(appFrameIds) < MaxAppFrames
    /\ appFrameIdCounter' = appFrameIdCounter + 1
    /\ appSelection' = selectFrame(appSelection,
                                   Append(appFrameIds, appFrameIdCounter + 1),
                                   appFrameIdCounter + 1)
    /\ RebuildWith(Append(appFrameIds, appFrameIdCounter + 1))

\* Mutant of RemoveFrameById: the film is not rebuilt.
RemoveFrameByIdNoRebuild(frameId) ==
    /\ appSelection' = removeFrameSelection(appSelection, appFrameIds, frameId)
    /\ \E k \in 1..Len(appFrameIds) :
         /\ appFrameIds[k] = frameId
         /\ appFrameIds' = [n \in 1..(Len(appFrameIds) - 1) |->
                               IF n < k THEN appFrameIds[n]
                               ELSE appFrameIds[n + 1]]
    /\ UNCHANGED <<appFrameIdCounter, appRuntime, appRebuilds, appStepped>>

\* removeFrame(frameId), lines 374-402, for a frame that exists.
RemoveFrameById(frameId) ==
    /\ appSelection' = removeFrameSelection(appSelection, appFrameIds, frameId)
    /\ \E k \in 1..Len(appFrameIds) :
         /\ appFrameIds[k] = frameId
         /\ RebuildWith([n \in 1..(Len(appFrameIds) - 1) |->
                            IF n < k THEN appFrameIds[n]
                            ELSE appFrameIds[n + 1]])
    /\ UNCHANGED appFrameIdCounter

\* The handler changes nothing but the record of the event.
NothingElse ==
    UNCHANGED <<appFrameIds, appFrameIdCounter, appRuntime, appRebuilds,
                appStepped, appSelection, appClipboard>>

\* addFrame(type), from one of the four add buttons.
AddFrame ==
    /\ ~appDisposed
    /\ AddFrameFromState
    /\ appEvent' = [type |-> "addFrame"]
    /\ UNCHANGED <<appDisposed, appClipboard>>
    /\ UNCHANGED <<appDrag, mstVars, topoVars, solverVars, frameVars>>

\* removeFrame(frameId): a frame that exists is removed; for any other id
\* the call returns at line 376.
RemoveFrame ==
    /\ ~appDisposed
    /\ \E frameId \in 1..(appFrameIdCounter + 1) :
         IF HasFrame(appFrameIds, frameId)
         THEN /\ RemoveFrameById(frameId)
              /\ appEvent' = [type |-> "removeFrame"]
              /\ UNCHANGED appClipboard
         ELSE /\ appEvent' = [type |-> "removeFrame"]
              /\ NothingElse
    /\ UNCHANGED appDisposed
    /\ UNCHANGED <<appDrag, mstVars, topoVars, solverVars, frameVars>>

\* selectFrame(frameId), called through the public interface with null, the
\* id of a frame, or an id no frame has.
SelectFrame ==
    /\ ~appDisposed
    /\ \E frameId \in 0..(appFrameIdCounter + 1) :
         appSelection' = selectFrame(appSelection, appFrameIds, frameId)
    /\ appEvent' = [type |-> "selectFrame", before |-> appSelection]
    /\ UNCHANGED <<appFrameIds, appFrameIdCounter, appRuntime, appRebuilds,
                   appStepped, appDisposed, appClipboard>>
    /\ UNCHANGED <<appDrag, mstVars, topoVars, solverVars, frameVars>>

\* The keys the handler tells apart; "c" and "v" are event.key.toLowerCase().
Keys == {"c", "v", "Escape", "Delete"}

\* handleKeyDown, lines 936-964.
KeyDown ==
    /\ ~appDisposed
    /\ \E key \in Keys, hasModifier \in BOOLEAN :
         /\ appEvent' = [type |-> "keydown", key |-> key,
                         hasModifier |-> hasModifier, before |-> appSelection]
         /\ IF hasModifier /\ key = "c"
            THEN \* copySelectedFrame, lines 1092-1118
                 /\ appClipboard' =
                      (appClipboard
                         \/ (appSelection.selectedFrameId # NullId
                             /\ HasFrame(appFrameIds,
                                         appSelection.selectedFrameId)))
                 /\ UNCHANGED <<appFrameIds, appFrameIdCounter, appRuntime,
                                appRebuilds, appStepped, appSelection>>
            ELSE IF hasModifier /\ key = "v"
            THEN \* pasteFrameFromClipboard, lines 1120-1148
                 IF appClipboard
                 THEN AddFrameFromState /\ UNCHANGED appClipboard
                 ELSE NothingElse
            ELSE IF ~hasModifier /\ key = "Escape"
            THEN /\ appSelection' = EscapeKey(appSelection, appFrameIds)
                 /\ UNCHANGED <<appFrameIds, appFrameIdCounter, appRuntime,
                                appRebuilds, appStepped, appClipboard>>
            ELSE IF ~hasModifier /\ key = "Delete"
                    /\ appSelection.selectedFrameId # NullId
            THEN IF HasFrame(appFrameIds, appSelection.selectedFrameId)
                 THEN /\ RemoveFrameById(appSelection.selectedFrameId)
                      /\ UNCHANGED appClipboard
                 ELSE NothingElse
            ELSE NothingElse
    /\ UNCHANGED appDisposed
    /\ UNCHANGED <<appDrag, mstVars, topoVars, solverVars, frameVars>>

\* The control points a click is tried on: the first and the last.
ClickedControlPoints == {0, DefaultControlPointCount - 1}

\* handlePointerDown, lines 859-904, with the left button: the handler
\* returns at line 864 during a transform drag; otherwise the ray hits a
\* control point handle, a frame line, or nothing.
PointerDown ==
    /\ ~appDisposed
    /\ \E hitControlPoint \in BOOLEAN, controlPointIndex \in ClickedControlPoints :
       \E n \in 0..Len(appFrameIds) :
         appSelection' =
            IF appDrag.isTransformDragging THEN appSelection
            ELSE pointerDownSelection(appSelection, appFrameIds,
                                      hitControlPoint,
                                      IF n = 0 THEN NullId ELSE appFrameIds[n],
                                      controlPointIndex)
    /\ appEvent' = [type |-> "pointerdown"]
    /\ UNCHANGED <<appFrameIds, appFrameIdCounter, appRuntime, appRebuilds,
                   appStepped, appDisposed, appClipboard>>
    /\ UNCHANGED <<appDrag, mstVars, topoVars, solverVars, frameVars>>

\* handleDoubleClick, lines 906-934, with the left button: the handler
\* returns at line 911 during a transform drag; otherwise the ray hits a
\* frame line, or nothing.
DoubleClick ==
    /\ ~appDisposed
    /\ \E n \in 0..Len(appFrameIds) :
         appSelection' =
            IF appDrag.isTransformDragging THEN appSelection
            ELSE doubleClickSelection(appSelection, appFrameIds,
                                      IF n = 0 THEN NullId ELSE appFrameIds[n])
    /\ appEvent' = [type |-> "dblclick"]
    /\ UNCHANGED <<appFrameIds, appFrameIdCounter, appRuntime, appRebuilds,
                   appStepped, appDisposed, appClipboard>>
    /\ UNCHANGED <<appDrag, mstVars, topoVars, solverVars, frameVars>>

\* The reset-solver button: rebuildFilm() with the frames as they are.
ResetSolverClick ==
    /\ ~appDisposed
    /\ RebuildWith(appFrameIds)
    /\ UNCHANGED <<appFrameIdCounter, appDisposed, appSelection, appClipboard,
                   appEvent>>
    /\ UNCHANGED <<appDrag, mstVars, topoVars, solverVars, frameVars>>

\* animationLoop, lines 1160-1176: one relaxation step on the runtime, if
\* there is one.
AnimationTick ==
    /\ ~appDisposed
    /\ appStepped' =
         IF appRuntime.present
         THEN [by |-> "animationLoop", state |-> appRuntime.state,
               solverContext |-> appRuntime.solverContext,
               rebuilds |-> appRebuilds, frames |-> appFrameIds]
         ELSE appStepped
    /\ appRuntime' =
         IF appRuntime.present
         THEN [appRuntime EXCEPT !.velocities = "stepped"]
         ELSE appRuntime
    /\ UNCHANGED <<appFrameIds, appFrameIdCounter, appRebuilds,
                   appDisposed, appSelection, appClipboard, appEvent>>
    /\ UNCHANGED <<appDrag, mstVars, topoVars, solverVars, frameVars>>

\* dispose(): the animation frame is cancelled, the listeners are removed,
\* the frames are cleared and the film runtime is disposed.
Dispose ==
    /\ ~appDisposed
    /\ appDisposed' = TRUE
    /\ appFrameIds' = <<>>
    /\ appRuntime' = disposeFilmRuntime(appRuntime)
    /\ UNCHANGED <<appFrameIdCounter, appRebuilds, appStepped, appSelection,
                   appClipboard, appEvent>>
    /\ UNCHANGED <<appDrag, mstVars, topoVars, solverVars, frameVars>>

\* The control is attached to an object: the frame controls by
\* updateFrameTransformControlAttachments, lines 1001-1022, the control
\* point control by selectControlPoint, lines 1027-1048.
Attached(control, selection, frameIds) ==
    IF control = ControlPointTransformControl
    THEN selection.selectedControlPoint.present
    ELSE /\ selection.selectedFrameId # NullId
         /\ selection.pointEditFrameId # selection.selectedFrameId
         /\ HasFrame(frameIds, selection.selectedFrameId)

\* The dragging property of a control after it has flipped.
DraggingAfter(dragging, control) ==
    IF control \in dragging THEN dragging \ {control}
    ELSE dragging \cup {control}

\* The 'dragging-changed' listener of a control, lines 1299-1306 and
\* 1341-1348: the control's dragging property has flipped.  A drag starts
\* on an attached control, and at most MaxPointers controls drag at a
\* time.
DraggingChanged ==
    /\ ~appDisposed
    /\ \E control \in Controls :
         /\ control \in appDrag.dragging
              \/ Attached(control, appSelection, appFrameIds)
         /\ Cardinality(DraggingAfter(appDrag.dragging, control)) <= MaxPointers
         /\ \E updated \in {updateTransformDraggingState(
                                DraggingAfter(appDrag.dragging, control),
                                appDrag.isTransformDragging, appRuntime)} :
              /\ appDrag' =
                   [dragging |-> DraggingAfter(appDrag.dragging, control),
                    isTransformDragging |-> updated.isTransformDragging]
              /\ appRuntime' = updated.runtime
    /\ appEvent' = [type |-> "dragging-changed",
                    wasDragging |-> appDrag.isTransformDragging]
    /\ UNCHANGED <<appFrameIds, appFrameIdCounter, appRebuilds, appStepped,
                   appDisposed, appSelection, appClipboard>>
    /\ UNCHANGED <<mstVars, topoVars, solverVars, frameVars>>

AppNext ==
    \/ AddFrame
    \/ DraggingChanged
    \/ RemoveFrame
    \/ SelectFrame
    \/ KeyDown
    \/ PointerDown
    \/ DoubleClick
    \/ ResetSolverClick
    \/ AnimationTick
    \/ Dispose

SpecApp == AppInit /\ [][AppNext]_vars

-----------------------------------------------------------------------------
(* Undirected graphs over frame ids, for the statements about buildMst *)

Range(seq) == {seq[k] : k \in 1..Len(seq)}

Adjacent(E, u) == {e[2] : e \in {x \in E : x[1] = u}}
                    \cup {e[1] : e \in {x \in E : x[2] = u}}

RECURSIVE Reachable(_, _)
Reachable(R, E) ==
    LET R2 == R \cup UNION {Adjacent(E, u) : u \in R} IN
    IF R2 = R THEN R ELSE Reachable(R2, E)

Components(V, E) == {Reachable({v}, E) : v \in V}

Connected(V, E) == Cardinality(Components(V, E)) <= 1

\* All spanning trees of the complete graph on positions 1..n, as sets of
\* position pairs (i, j) with i < j.
AllPairs(n) == {p \in (1..n) \X (1..n) : p[1] < p[2]}

SpanningTreesOf ==
    [n \in 0..MaxMstFrames |->
        {T \in SUBSET AllPairs(n) :
            /\ Cardinality(T) = (IF n = 0 THEN 0 ELSE n - 1)
            /\ Connected(1..n, T)}]

\* The same trees as lists of pairs (any order), for summing.
RECURSIVE PairList(_)
PairList(T) ==
    IF T = {} THEN <<>>
    ELSE LET p == CHOOSE q \in T : TRUE IN <<p>> \o PairList(T \ {p})

SpanningTreeLists ==
    [n \in 0..MaxMstFrames |-> {PairList(T) : T \in SpanningTreesOf[n]}]

\* Pairwise distances of the centers, by position pair.
PairWeights(frameIds, frameCenters) ==
    [p \in AllPairs(Len(frameIds)) |->
        DistanceTo(frameCenters[frameIds[p[1]]], frameCenters[frameIds[p[2]]])]

RECURSIVE TreeWeight(_, _, _)
TreeWeight(tree, weights, k) ==
    IF k > Len(tree) THEN 0
    ELSE weights[tree[k]] + TreeWeight(tree, weights, k + 1)

RECURSIVE EdgeListWeight(_, _, _)
EdgeListWeight(edges, frameCenters, k) ==
    IF k > Len(edges) THEN 0
    ELSE DistanceTo(frameCenters[edges[k].from], frameCenters[edges[k].to])
           + EdgeListWeight(edges, frameCenters, k + 1)

MstEdgePairs == {<<mstResult[k].from, mstResult[k].to>> : k \in 1..Len(mstResult)}

\* The precondition of the buildMst contract: every id has a center.
MstEveryIdHasCenter == Range(mstFrameIds) \subseteq DOMAIN mstCenters

MstHasDuplicateCenters ==
    \E a, b \in Range(mstFrameIds) : a # b /\ mstCenters[a] = mstCenters[b]

MstHasCollinearCenters ==
    \E a, b, c \in Range(mstFrameIds) :
        /\ mstCenters[a][2] = 0 /\ mstCenters[b][2] = 0 /\ mstCenters[c][2] = 0
        /\ mstCenters[a][1] < mstCenters[b][1]
        /\ mstCenters[b][1] < mstCenters[c][1]

-----------------------------------------------------------------------------
(* Statements about buildMst *)

\* C1: with N distinct ids that all have a center, buildMst returns N-1
\* edges (none when N <= 1) between distinct given ids, and the undirected
\* graph of these edges over the ids is connected and acyclic, whatever the
\* centers are (duplicates and collinear centers included).
C1_MstIsSpanningTree ==
    (mstCalled /\ MstEveryIdHasCenter) =>
        LET n == Len(mstFrameIds)
            ids == Range(mstFrameIds)
        IN  /\ Len(mstResult) = (IF n <= 1 THEN 0 ELSE n - 1)
            /\ \A k \in 1..Len(mstResult) :
                 /\ mstResult[k].from \in ids
                 /\ mstResult[k].to \in ids
                 /\ mstResult[k].from # mstResult[k].to
            /\ Connected(ids, MstEdgePairs)
            /\ Cardinality(Components(ids, MstEdgePairs)) = n - Len(mstResult)

\* Witness of C1: four frames, a duplicated center and three collinear
\* centers, and the call has returned three edges.
C1_Witness ==
    /\ mstCalled
    /\ MstEveryIdHasCenter
    /\ Len(mstFrameIds) = 4
    /\ MstHasDuplicateCenters
    /\ MstHasCollinearCenters
    /\ Len(mstResult) = 3

\* C10: the returned edges have minimum total weight among all spanning
\* trees of the complete graph over the ids, weighted by the distance
\* between centers.
C10_MstIsMinimum ==
    (mstCalled /\ MstEveryIdHasCenter) =>
        LET weights == PairWeights(mstFrameIds, mstCenters)
            returned == EdgeListWeight(mstResult, mstCenters, 1)
        IN  \A tree \in SpanningTreeLists[Len(mstFrameIds)] :
                returned <= TreeWeight(tree, weights, 1)

\* Witness of C10: four frames with pairwise distinct centers where some
\* spanning tree is strictly heavier than the returned one.
C10_Witness ==
    /\ mstCalled
    /\ MstEveryIdHasCenter
    /\ Len(mstFrameIds) = 4
    /\ ~MstHasDuplicateCenters
    /\ \E tree \in SpanningTreeLists[4] :
         EdgeListWeight(mstResult, mstCenters, 1)
             < TreeWeight(tree, PairWeights(mstFrameIds, mstCenters), 1)

\* The candidate pairs of positions (i, j), i < j, whose ids both have a
\* center, and their weights.
MstCandidatePairs ==
    {p \in AllPairs(Len(mstFrameIds)) :
        /\ mstFrameIds[p[1]] \in DOMAIN mstCenters
        /\ mstFrameIds[p[2]] \in DOMAIN mstCenters}

MstPairWeight(p) ==
    DistanceTo(mstCenters[mstFrameIds[p[1]]], mstCenters[mstFrameIds[p[2]]])

\* p comes before q: lighter, or equally heavy and earlier in the
\* enumeration (lower i first, then lower j).
MstPairBefore(p, q) ==
    \/ MstPairWeight(p) < MstPairWeight(q)
    \/ /\ MstPairWeight(p) = MstPairWeight(q)
       /\ (p[1] < q[1] \/ (p[1] = q[1] /\ p[2] < q[2]))

\* The pairs that join two components of the chosen edges, taken one by
\* one, each time the first in the order MstPairBefore.
RECURSIVE MstGreedyFrom(_, _)
MstGreedyFrom(chosen, remaining) ==
    LET usable == {p \in remaining :
                      p[2] \notin Reachable({p[1]}, Range(chosen))}
    IN  IF usable = {} THEN chosen
        ELSE LET best == CHOOSE p \in usable :
                             \A q \in usable \ {p} : MstPairBefore(p, q)
             IN  MstGreedyFrom(Append(chosen, best), usable \ {best})

\* Position of an id in frameIds.
MstPositionOf(id) == CHOOSE k \in 1..Len(mstFrameIds) : mstFrameIds[k] = id

MstResultPairs ==
    [k \in 1..Len(mstResult) |->
        <<MstPositionOf(mstResult[k].from), MstPositionOf(mstResult[k].to)>>]

\* C13: candidate pairs of equal distance are considered in the order of
\* their enumeration (lower i first, then lower j): the returned edge list
\* is the one fixed by the id order and the centers, namely the pairs that
\* join two components, taken by weight and, among equal weights, by
\* enumeration order.
C13_TiesInEnumerationOrder ==
    mstCalled =>
        /\ MstResultPairs = MstGreedyFrom(<<>>, MstCandidatePairs)
        /\ \A k \in 1..Len(mstResult) :
             mstResult[k].weight = MstPairWeight(MstResultPairs[k])

\* Two candidate pairs of equal distance of which the returned tree holds
\* the earlier one only, although the later one in its place would span
\* the frames as well.
C13_Witness ==
    /\ mstCalled
    /\ MstEveryIdHasCenter
    /\ \E p, q \in MstCandidatePairs :
         /\ MstPairWeight(p) = MstPairWeight(q)
         /\ MstPairBefore(p, q)
         /\ p \in Range(MstResultPairs)
         /\ q \notin Range(MstResultPairs)
         /\ Connected(1..Len(mstFrameIds),
                      (Range(MstResultPairs) \ {p}) \cup {q})

-----------------------------------------------------------------------------
(* Statements about buildFilmTopology *)

TopoReturned == topoCalled /\ ~topoResult.threw

TopoVertexCount == Len(topoResult.positions)

\* C2: for two or more frames and every spanSubdivisions value, every entry
\* of the returned index buffer is >= 0 and < positions.length / 3 (so no
\* grid slot that a triangle uses was left at -1).
C2_IndicesValid ==
    (TopoReturned /\ Len(topoFrames) >= 2) =>
        \A k \in 1..Len(topoResult.indices) :
            /\ topoResult.indices[k] >= 0
            /\ topoResult.indices[k] < TopoVertexCount

\* Witness of C2: three frames, spanSubdivisions = 0 (raised to 2 by the
\* code), and triangles were emitted.
C2_Witness ==
    /\ TopoReturned
    /\ Len(topoFrames) = 3
    /\ topoOptions.defined /\ topoOptions.halves = 0
    /\ Len(topoResult.indices) > 0

\* C3: for N >= 2 frames there is exactly one boundary constraint per
\* sampled loop vertex of every frame: for frame f and sample i one
\* constraint with frame id f and parameter i / sampleCount, whose vertex is
\* that sample's world point; the vertex indices are pairwise distinct and
\* the list has sampleCount * N entries.
C3_OneConstraintPerLoopVertex ==
    (TopoReturned /\ Len(topoFrames) >= 2) =>
        LET bc == topoResult.boundaryConstraints
            S == topoResult.sampleCount
        IN  /\ Len(bc) = S * Len(topoFrames)
            /\ \A j, k \in 1..Len(bc) :
                 j # k => bc[j].vertexIndex # bc[k].vertexIndex
            /\ \A f \in 1..Len(topoFrames) : \A i \in 0..(S - 1) :
                 LET mine == {k \in 1..Len(bc) :
                                 /\ bc[k].frameId = topoFrames[f].id
                                 /\ bc[k].curveParamT = [num |-> i, den |-> S]}
                 IN  /\ Cardinality(mine) = 1
                     /\ \A k \in mine :
                          /\ bc[k].vertexIndex \in 0..(TopoVertexCount - 1)
                          /\ At(topoResult.positions, bc[k].vertexIndex)
                               = At(WorldLoop(topoFrames[f], S), i)

\* Witness of C3: three frames, so one pair of frames is not bridged, and
\* 3 * sampleCount constraints.
C3_Witness ==
    /\ TopoReturned
    /\ Len(topoFrames) = 3
    /\ topoResult.mstEdgeCount = 2
    /\ topoResult.sampleCount >= 8
    /\ Len(topoResult.boundaryConstraints) = 3 * topoResult.sampleCount

\* C7: with 0 or 1 frames buildFilmTopology returns the empty result and
\* does not raise.
C7_EmptyBelowTwoFrames ==
    (topoCalled /\ Len(topoFrames) < 2) =>
        /\ ~topoResult.threw
        /\ topoResult.positions = <<>>
        /\ topoResult.indices = <<>>
        /\ topoResult.boundaryConstraints = <<>>
        /\ topoResult.sampleCount = 0
        /\ topoResult.mstEdgeCount = 0

\* Witness of C7: the call was made with exactly one frame.
C7_Witness ==
    /\ topoCalled
    /\ Len(topoFrames) = 1
    /\ topoResult.positions = <<>>

\* The constraints recorded for the frame at position f.
TopoConstraintsOf(f) ==
    {k \in 1..Len(topoResult.boundaryConstraints) :
        topoResult.boundaryConstraints[k].frameId = topoFrames[f].id}

\* C14: for N >= 2 frames the sample count is max(8, the least
\* boundarySamples of the input frames): the result reports it, and every
\* frame's loop has that many vertices.
C14_SampleCountIsFlooredMinimum ==
    (TopoReturned /\ Len(topoFrames) >= 2) =>
        LET least == CHOOSE m \in {topoFrames[f].state.boundarySamples :
                                      f \in 1..Len(topoFrames)} :
                         \A f \in 1..Len(topoFrames) :
                             m <= topoFrames[f].state.boundarySamples
            expected == IF least < 8 THEN 8 ELSE least
        IN  /\ topoResult.sampleCount = expected
            /\ \A f \in 1..Len(topoFrames) :
                 Cardinality(TopoConstraintsOf(f)) = expected

\* Witness of C14: the first frame asks for more samples than another
\* frame, whose count lies below 8, and the loops have 8 vertices each.
C14_Witness ==
    /\ TopoReturned
    /\ Len(topoFrames) >= 2
    /\ topoFrames[1].state.boundarySamples > 8
    /\ \E f \in 2..Len(topoFrames) : topoFrames[f].state.boundarySamples < 8
    /\ topoResult.sampleCount = 8
    /\ \A f \in 1..Len(topoFrames) : Cardinality(TopoConstraintsOf(f)) = 8

\* The call was made with two or more frames and spanSubdivisions = 0.
TopoZeroSubdivisions ==
    /\ topoCalled
    /\ Len(topoFrames) >= 2
    /\ topoOptions.defined
    /\ topoOptions.halves = 0

\* C15 as stated: with two or more frames and spanSubdivisions = 0 the
\* call does not raise and returns the empty result.
C15_ZeroSubdivisionsEmpty ==
    TopoZeroSubdivisions =>
        /\ ~topoResult.threw
        /\ topoResult.positions = <<>>
        /\ topoResult.indices = <<>>
        /\ topoResult.boundaryConstraints = <<>>

\* C15, amended: with two or more frames and spanSubdivisions = 0 the call
\* does not raise and the count is raised to 2: each of the N - 1 bridges
\* has one interior column of sampleCount vertices and 2 * sampleCount
\* quads, so the result is not empty.
C15_ZeroSubdivisionsRaisedToTwo ==
    TopoZeroSubdivisions =>
        LET S == topoResult.sampleCount
            N == Len(topoFrames)
        IN  /\ ~topoResult.threw
            /\ topoResult.mstEdgeCount = N - 1
            /\ TopoVertexCount = S * N + (N - 1) * S
            /\ Len(topoResult.indices) = (N - 1) * S * 2 * 6
            /\ Len(topoResult.boundaryConstraints) = S * N

\* Witness of C15: two frames, spanSubdivisions = 0, and a film of
\* triangles was returned.
C15_Witness ==
    /\ TopoZeroSubdivisions
    /\ Len(topoFrames) = 2
    /\ ~topoResult.threw
    /\ Len(topoResult.indices) > 0
    /\ TopoVertexCount = 3 * topoResult.sampleCount

\* C16 as stated: with a single frame the build records the boundary
\* constraints of that frame's loop, which no triangle uses.
C16_SingleFrameHasConstraints ==
    (topoCalled /\ Len(topoFrames) = 1) =>
        /\ Cardinality(TopoConstraintsOf(1)) > 0
        /\ topoResult.indices = <<>>

\* C16, amended: with a single frame the build returns before the frame
\* is sampled: no boundary constraint names the frame and no vertex of its
\* loop is recorded.
C16_SingleFrameHasNoConstraints ==
    (topoCalled /\ Len(topoFrames) = 1) =>
        /\ TopoConstraintsOf(1) = {}
        /\ TopoVertexCount = 0
        /\ topoResult.indices = <<>>

\* Witness of C16: the call was made with one frame whose loop would have
\* 9 samples, and nothing was recorded.
C16_Witness ==
    /\ topoCalled
    /\ Len(topoFrames) = 1
    /\ topoFrames[1].state.boundarySamples = MaxSamples
    /\ topoResult.boundaryConstraints = <<>>
    /\ topoResult.sampleCount = 0

\* The effective spanSubdivisions of the call (an integer when the call
\* returned).
TopoSpan == SpanHalvesOf(topoOptions) \div 2

\* How many triangle corners name vertex v.
TopoCornersAt(v) ==
    Cardinality({k \in 1..Len(topoResult.indices) : topoResult.indices[k] = v})

\* C22: for N >= 2 frames, with S = sampleCount and D the effective
\* spanSubdivisions, the result bridges N - 1 frame pairs, has
\* N*S + (N-1)*S*(D-1) vertices and 2*S*D*(N-1) triangles; every strip
\* vertex that is not a loop vertex is new and is a corner of the six
\* triangles around it (the rows wrap, the columns do not), and the loop
\* vertices of a frame are corners of three triangles per strip that ends
\* at the frame, so 6*S*(N-1) corners in all lie on the loops.
C22_StripCounts ==
    (TopoReturned /\ Len(topoFrames) >= 2) =>
        LET N == Len(topoFrames)
            S == topoResult.sampleCount
            D == TopoSpan
        IN  /\ topoResult.mstEdgeCount = N - 1
            /\ TopoVertexCount = N * S + (N - 1) * S * (D - 1)
            /\ Len(topoResult.indices) = 3 * (2 * S * D * (N - 1))
            /\ topoOptions.defined =>
                 /\ \A v \in (N * S)..(TopoVertexCount - 1) :
                        TopoCornersAt(v) = 6
                 /\ \A v \in 0..(N * S - 1) :
                        /\ TopoCornersAt(v) \in {3 * m : m \in 1..(N - 1)}
                        /\ TopoCornersAt(v) = TopoCornersAt((v \div S) * S)
                 /\ Cardinality({k \in 1..Len(topoResult.indices) :
                                    topoResult.indices[k] < N * S})
                      = 6 * S * (N - 1)

\* Three frames bridged by two strips of MaxSpan columns of cells: one frame
\* ends two strips, and there are new vertices between the loops.
C22_Witness ==
    /\ TopoReturned
    /\ Len(topoFrames) = 3
    /\ topoOptions.defined
    /\ TopoSpan = MaxSpan
    /\ topoResult.mstEdgeCount = 2
    /\ TopoVertexCount > 3 * topoResult.sampleCount
    /\ \E v \in 0..(3 * topoResult.sampleCount - 1) : TopoCornersAt(v) = 6

\* The world loops of the frames of the call, as buildFilmTopology samples
\* them.
TopoLoops ==
    [j \in 1..Len(topoFrames) |->
        WorldLoop(topoFrames[j], SampleCountOf(topoFrames))]

TopoFramePairs ==
    {p \in (1..Len(topoFrames)) \X (1..Len(topoFrames)) : p[1] # p[2]}

\* The 2 x count candidate alignments.
Alignments(count) == [reverse : BOOLEAN, shift : 0..(count - 1)]

\* Candidate a is scanned before candidate b.
ScannedBefore(a, b) ==
    \/ ~a.reverse /\ b.reverse
    \/ a.reverse = b.reverse /\ a.shift < b.shift

\* best is a candidate, no candidate has a smaller error, and no candidate
\* scanned before it has an equal one; errors[c] is the sum over i of
\* |loopA[i] - loopB[mapIndex(i)]|^2 for candidate c.
FirstMinimum(best, errors) ==
    /\ best \in DOMAIN errors
    /\ \A c \in DOMAIN errors :
         /\ errors[best] <= errors[c]
         /\ ScannedBefore(c, best) => errors[best] < errors[c]

ErrorsOf(loopA, loopB) ==
    [c \in Alignments(Len(loopA)) |-> AlignmentError(loopA, loopB, c, 0)]

\* C23: for every two loops of the call, findBestLoopAlignment returns one
\* of the 2 x sampleCount candidates, no candidate has a smaller sum of
\* squared distances, and no candidate scanned before it (no reversal
\* before reversal, ascending shift) has an equal one.
C23_AlignmentIsFirstMinimum ==
    (topoCalled /\ Len(topoFrames) >= 2) =>
        LET loops == TopoLoops IN
        \A p \in TopoFramePairs :
            FirstMinimum(findBestLoopAlignment(loops[p[1]], loops[p[2]]),
                         ErrorsOf(loops[p[1]], loops[p[2]]))

\* best is reversed and shifted, and a later candidate has the same error.
TiedAfter(best, errors) ==
    /\ best.reverse
    /\ best.shift > 0
    /\ \E c \in DOMAIN errors :
         ScannedBefore(best, c) /\ errors[c] = errors[best]

\* Two loops for which a reversed, shifted candidate is the best one and a
\* later candidate has the same error.
C23_Witness ==
    /\ topoCalled
    /\ LET loops == TopoLoops IN
       \E p \in TopoFramePairs :
           TiedAfter(findBestLoopAlignment(loops[p[1]], loops[p[2]]),
                     ErrorsOf(loops[p[1]], loops[p[2]]))

\* The vertex indices pushVertex gave the loop of the j-th frame.
TopoBoundaryOf(j) ==
    [i \in 1..SampleCountOf(topoFrames) |->
        (j - 1) * SampleCountOf(topoFrames) + (i - 1)]

\* The last column of the grid lines 97-107 fill for the strip from the
\* frame p[1] to the frame p[2], row by row.
TopoLastColumn(loops, p) ==
    LET grid == FillGrid(loops[p[1]], loops[p[2]], TopoBoundaryOf(p[1]),
                         TopoBoundaryOf(p[2]),
                         findBestLoopAlignment(loops[p[1]], loops[p[2]]),
                         TopoSpan, 0, 0).grid
    IN  [i \in 1..Len(grid) |-> grid[i][TopoSpan + 1]]

\* Every element of targets is the entry of exactly one row of column.
OncePerRow(column, targets) ==
    \A v \in targets :
        Cardinality({i \in 1..Len(column) : column[i] = v}) = 1

\* C30: for every count >= 1, every shift in 0..count-1 and both reversal
\* flags, mapIndex maps 0..count-1 one-to-one onto 0..count-1; hence every
\* boundary vertex of loop B is the last-column entry of exactly one row
\* of the strip from loop A to loop B.
C30_MapIndexIsBijection ==
    /\ \A count \in 1..MaxSamples :
          \A alignment \in Alignments(count) :
             /\ \A i \in 0..(count - 1) :
                    mapIndex(i, count, alignment) \in 0..(count - 1)
             /\ \A i, j \in 0..(count - 1) :
                    mapIndex(i, count, alignment) = mapIndex(j, count, alignment)
                        => i = j
    /\ (TopoReturned /\ Len(topoFrames) >= 2) =>
          LET loops == TopoLoops IN
          \A p \in TopoFramePairs :
              OncePerRow(TopoLastColumn(loops, p),
                         {TopoBoundaryOf(p[2])[i] :
                             i \in 1..SampleCountOf(topoFrames)})

\* A strip whose loop B is taken reversed and shifted: its last column
\* is a rearrangement of the boundary vertices of B.
C30_Witness ==
    /\ TopoReturned
    /\ Len(topoFrames) >= 2
    /\ LET loops == TopoLoops IN
       \E p \in TopoFramePairs :
           /\ findBestLoopAlignment(loops[p[1]], loops[p[2]]).reverse
           /\ findBestLoopAlignment(loops[p[1]], loops[p[2]]).shift > 0
           /\ TopoLastColumn(loops, p) # TopoBoundaryOf(p[2])
           /\ TopoLastColumn(loops, p)[1] # TopoBoundaryOf(p[2])[1]

-----------------------------------------------------------------------------
(* Statements about the solver *)

\* The state follows a runRelaxationStep in which a substep ran (the index
\* buffer is non-empty and substeps >= 1).
StepRan == solLast.op = "step" /\ solLast.ran

ConstraintIndices == 1..Len(solFilmState.boundaryConstraints)

\* What the sampler returns for constraint k with the frames as they are.
SampledPoint(k) == BoundarySampler(solFrames, solFilmState.boundaryConstraints[k])

ConstrainedVertex(k) == solFilmState.boundaryConstraints[k].vertexIndex

FreeVertices ==
    {v \in 0..(Len(solFilmState.positions) - 1) :
        At(solContext.boundaryMask, v) = 0}

\* The solver context as the vertex loop of the last substep found it.
ContextBeforeLoop ==
    [solContext EXCEPT
        !.scratchPositions = solLast.projected.positions,
        !.scratchVelocities = solLast.projected.velocities]

\* The simultaneous (Jacobi) update of free vertex v: computed from the
\* arrays as the first projection of the substep left them.
JacobiUpdate(v) ==
    FreeVertexUpdate(solLast.projected.positions, solLast.projected.velocities,
                     solLast.projected, solContext, v)

\* C4: after runRelaxationStep returns with substeps >= 1 and a non-empty
\* index buffer, every constrained vertex for which the sampler returned a
\* point is at that point with zero velocity, whatever steps, frame moves
\* and direct writes came before.
C4_BoundaryPinnedAfterStep ==
    StepRan =>
        \A k \in ConstraintIndices :
            SampledPoint(k).present =>
                /\ At(solFilmState.positions, ConstrainedVertex(k))
                     = SampledPoint(k).point
                /\ At(solFilmState.velocities, ConstrainedVertex(k)) = ZeroVec

\* Witness of C4: the step found a constrained vertex away from its frame
\* (the frame had moved) and with a velocity (written directly), and the
\* sampler returned a point for it.
C4_Witness ==
    /\ StepRan
    /\ \E k \in ConstraintIndices :
         /\ SampledPoint(k).present
         /\ At(solLast.before.positions, ConstrainedVertex(k))
              # SampledPoint(k).point
         /\ At(solLast.before.velocities, ConstrainedVertex(k)) # ZeroVec

\* C5: after resetFilmState the positions equal restPositions element for
\* element and every velocity is zero, from any state reached by steps or
\* by direct writes.
C5_ResetRestoresRest ==
    solLast.op = "reset" =>
        /\ solFilmState.positions = solFilmState.restPositions
        /\ \A n \in 1..Len(solFilmState.velocities) :
             solFilmState.velocities[n] = ZeroVec

\* Witness of C5: the reset found positions off the rest positions and a
\* velocity that was not zero.
C5_Witness ==
    /\ solLast.op = "reset"
    /\ solLast.before.positions # solLast.before.restPositions
    /\ \E n \in 1..Len(solLast.before.velocities) :
         solLast.before.velocities[n] # ZeroVec
    /\ solFilmState.positions = solFilmState.restPositions

\* C6: when the sampler returns no point for a constraint, the step
\* completes, that constraint's vertex keeps the position it had before
\* the step, and the other vertices are updated as usual: a constrained
\* vertex with a point is at its point, a free vertex has the update of the
\* last substep.
C6_MissingFrameLeavesVertex ==
    StepRan =>
        /\ \A k \in ConstraintIndices :
             IF SampledPoint(k).present
             THEN At(solFilmState.positions, ConstrainedVertex(k))
                    = SampledPoint(k).point
             ELSE At(solFilmState.positions, ConstrainedVertex(k))
                    = At(solLast.before.positions, ConstrainedVertex(k))
        /\ \A v \in FreeVertices :
             At(solFilmState.positions, v) = JacobiUpdate(v).position

\* Witness of C6: a step ran while one frame was missing and the other was
\* present, and a free vertex moved.
C6_Witness ==
    /\ StepRan
    /\ \E k \in ConstraintIndices : ~SampledPoint(k).present
    /\ \E k \in ConstraintIndices : SampledPoint(k).present
    /\ \E v \in FreeVertices :
         At(solFilmState.positions, v) # At(solLast.before.positions, v)

\* The order of the vertex loop, reversed.
ReverseOrder(order) == [n \in 1..Len(order) |-> order[Len(order) + 1 - n]] \o <<>>

\* C9: within one substep the update of every free vertex is computed from
\* the positions and velocities as they were after the first projection of
\* that substep: the result is the simultaneous (Jacobi) update, and it is
\* the same when the vertices are visited in the reverse order.
C9_UpdateIsJacobi ==
    StepRan =>
        /\ \A v \in FreeVertices :
             /\ At(solFilmState.positions, v) = JacobiUpdate(v).position
             /\ At(solFilmState.velocities, v) = JacobiUpdate(v).velocity
        /\ LET count == Len(solLast.projected.positions)
               reversed == VisitRange(solLast.projected, ContextBeforeLoop,
                                      ReverseOrder(VertexOrder(count)), 1, count)
           IN  /\ reversed.scratchPositions = solContext.scratchPositions
               /\ reversed.scratchVelocities = solContext.scratchVelocities

\* Witness of C9: in the last substep two neighbouring free vertices both
\* moved, so the later one was computed after the scratch entry of the
\* earlier one had changed.
C9_Witness ==
    /\ StepRan
    /\ \E v \in FreeVertices :
         \E k \in 1..Len(At(solContext.neighbors, v)) :
            LET w == At(solContext.neighbors, v)[k] IN
            /\ w \in FreeVertices
            /\ w < v
            /\ At(solFilmState.positions, v) # At(solLast.projected.positions, v)
            /\ At(solFilmState.positions, w) # At(solLast.projected.positions, w)

\* C11: runRelaxationStep on a film state whose index buffer is empty is a
\* no-op for every solver configuration: the film state it leaves is the
\* one it was given (no position, no velocity changes), the boundary
\* sampler has not been called, no substep has run, and the call returns.
C11_EmptyIndicesNoOp ==
    (solLast.op = "step" /\ Len(solLast.before.indices) = 0) =>
        /\ solFilmState = solLast.before
        /\ solFilmState.positions = solLast.before.positions
        /\ solFilmState.velocities = solLast.before.velocities
        /\ solLast.samplerCalls = 0
        /\ ~solLast.ran

\* A step on a film state with vertices, boundary constraints and moving
\* vertices but no triangle, configured with one substep or more.
C11_Witness ==
    /\ solLast.op = "step"
    /\ Len(solLast.before.indices) = 0
    /\ Len(solLast.before.boundaryConstraints) > 0
    /\ solLast.before.solverConfig.substeps >= 1
    /\ \E n \in 1..Len(solLast.before.velocities) :
         solLast.before.velocities[n] # ZeroVec
    /\ solFilmState = solLast.before

\* C21: a runRelaxationStep call on a non-empty index buffer runs substeps
\* substeps, so the boundary sampler is called 2 x substeps x (number of
\* constraints) times; in the last substep the gradient buffer holds the
\* area gradient of the positions the first projection left (computed into
\* a zeroed buffer), the scratch arrays hold the integrated vertices, and
\* the film state is their projection onto the boundary; with one substep
\* the first projection is that of the state the call was given.
C21_SubstepsInOrder ==
    (solLast.op = "step" /\ Len(solLast.before.indices) > 0) =>
        /\ solLast.samplerCalls =
              2 * solLast.before.solverConfig.substeps
                * Len(solLast.before.boundaryConstraints)
        /\ solLast.ran = (solLast.before.solverConfig.substeps >= 1)
        /\ solLast.before.solverConfig.substeps = 1 =>
              solLast.projected = projectBoundaries(solLast.before, solFrames)
        /\ solLast.ran =>
              /\ solContext.gradient = accumulateAreaGradient(solLast.projected)
              /\ \A v \in FreeVertices :
                    At(solContext.scratchPositions, v) = JacobiUpdate(v).position
              /\ solFilmState =
                    projectBoundaries(
                        [solLast.projected EXCEPT
                            !.positions = solContext.scratchPositions,
                            !.velocities = solContext.scratchVelocities],
                        solFrames)

\* A step of two substeps on the bridged film after a frame has moved: the
\* sampler was called four times per constraint, and the positions changed.
C21_Witness ==
    /\ solLast.op = "step"
    /\ solLast.ran
    /\ solLast.before.solverConfig.substeps = 2
    /\ Len(solLast.before.boundaryConstraints) > 0
    /\ solLast.samplerCalls = 4 * Len(solLast.before.boundaryConstraints)
    /\ solFilmState.positions # solLast.before.positions
    /\ solLast.projected.positions # solLast.before.positions

\* C24: restPositions is a buffer of its own (a write to positions is no
\* write to it), and no runRelaxationStep, no resetFilmState and no write
\* to positions or velocities changes restPositions, the index buffer or
\* the boundary-constraint list.
C24_RestSnapshotFrozen ==
    [][/\ solFilmState'.restPositions = solFilmState.restPositions
       /\ solFilmState'.indices = solFilmState.indices
       /\ solFilmState'.boundaryConstraints
            = solFilmState.boundaryConstraints]_vars

\* A reset after a step that ran on positions written directly: the
\* positions had left the rest positions and are back on them.
C24_Witness ==
    /\ solLast.op = "reset"
    /\ solOps >= 3
    /\ Len(solFilmState.indices) > 0
    /\ solLast.before.positions # solLast.before.restPositions
    /\ solFilmState.positions = solFilmState.restPositions
    /\ solFilmState.restPositions = solLast.before.restPositions

\* C17: no public core operation raises, whatever its input: a triangle
\* index outside the vertex range makes createSolverContext degrade to a
\* no-op or a partial skip, and a context is returned.
C17_CoreNeverRaises == ~solContext.threw

-----------------------------------------------------------------------------
(* Statements about the app *)

\* C8: the FilmState and SolverContext handed to a relaxation step (by
\* rebuildFilm or by an animation tick) were created by the same
\* rebuildFilm call, and that call is the latest one: a rebuild replaces
\* both at once, so no step runs on an earlier FilmState or SolverContext
\* or on a mixed pair.
C8_StepUsesLatestPair ==
    /\ appRuntime.present =>
         /\ appRuntime.state.build = appRebuilds
         /\ appRuntime.solverContext.build = appRebuilds
    /\ appStepped.by # "none" =>
         /\ appStepped.state.build = appStepped.rebuilds
         /\ appStepped.solverContext.build = appStepped.rebuilds

\* Witness of C8: an animation tick stepped the pair of the fourth or a
\* later rebuild, after three frames had been added, so that earlier pairs
\* had existed and been replaced.
C8_Witness ==
    /\ appStepped.by = "animationLoop"
    /\ appStepped.rebuilds >= 4
    /\ appFrameIdCounter >= 3
    /\ appStepped.state.build = appStepped.rebuilds

\* The last event handled is an Escape key press without Ctrl or Cmd.
EscapePressed ==
    /\ appEvent.type = "keydown"
    /\ appEvent.key = "Escape"
    /\ ~appEvent.hasModifier

\* C20: after Escape without a modifier, if point edit mode was active it
\* is left and the selected frame is the one selected before the key press;
\* if it was not active, no frame is selected.
C20_EscapeExitsPointEditOrDeselects ==
    EscapePressed =>
        IF appEvent.before.pointEditFrameId # NullId
        THEN /\ appSelection.pointEditFrameId = NullId
             /\ appSelection.selectedFrameId = appEvent.before.selectedFrameId
        ELSE /\ appSelection.pointEditFrameId = NullId
             /\ appSelection.selectedFrameId = NullId

\* Escape was pressed while a frame of several was in point edit mode with
\* a control point selected: the frame is still selected, and edited no
\* more.
C20_Witness ==
    /\ EscapePressed
    /\ Len(appFrameIds) >= 2
    /\ appEvent.before.pointEditFrameId # NullId
    /\ appEvent.before.selectedControlPoint.present
    /\ HasFrame(appFrameIds, appSelection.selectedFrameId)
    /\ appSelection.selectedFrameId = appEvent.before.pointEditFrameId
    /\ appSelection.pointEditFrameId = NullId
    /\ ~appSelection.selectedControlPoint.present

\* C27: when an animation tick runs a relaxation step, every boundary
\* constraint of the film it steps names a frame that exists at the tick,
\* so sampleConstraintPoint returns a point for every constraint.
C27_TickConstraintsHaveFrames ==
    appStepped.by = "animationLoop" =>
        \A k \in 1..Len(appStepped.state.constraintFrames) :
            HasFrame(appStepped.frames, appStepped.state.constraintFrames[k])

\* A tick stepped a film of two frames that was rebuilt after a frame of
\* three had been removed.
C27_Witness ==
    /\ appStepped.by = "animationLoop"
    /\ appEvent.type = "removeFrame"
    /\ appFrameIdCounter >= 3
    /\ Len(appStepped.frames) = 2
    /\ Len(appStepped.state.constraintFrames) = 2
    /\ appStepped.frames = appFrameIds

\* C28: a film runtime exists exactly when two or more frames exist; with
\* 0 or 1 frames the film of before has been disposed, and the ticks that
\* ran a relaxation step found two frames or more.
C28_FilmIffTwoFrames ==
    /\ appRuntime.present <=> Len(appFrameIds) >= 2
    /\ appStepped.by = "animationLoop" => Len(appStepped.frames) >= 2

\* One frame is left of two whose film a tick had stepped, and the film
\* is gone.
C28_Witness ==
    /\ Len(appFrameIds) = 1
    /\ ~appDisposed
    /\ appEvent.type = "removeFrame"
    /\ appStepped.by = "animationLoop"
    /\ Len(appStepped.frames) = 2
    /\ ~appRuntime.present

\* C26: after every sequence of selectFrame, addFrame, removeFrame, paste,
\* pointer-down, double-click and key events, pointEditFrameId is null or
\* equal to selectedFrameId.
C26_PointEditOnlyForSelected ==
    \/ appSelection.pointEditFrameId = NullId
    \/ appSelection.pointEditFrameId = appSelection.selectedFrameId

\* A frame is selected through the interface while another one of several
\* was in point edit mode: point edit mode has been left with it.
C26_Witness ==
    /\ appEvent.type = "selectFrame"
    /\ Len(appFrameIds) >= 2
    /\ appEvent.before.pointEditFrameId # NullId
    /\ appEvent.before.pointEditFrameId # appSelection.selectedFrameId
    /\ appSelection.selectedFrameId # NullId
    /\ appSelection.pointEditFrameId = NullId

-----------------------------------------------------------------------------
(* Statements about the frame samplers *)

\* C12: for every shape kind, for a frame with fewer than four control
\* points and for a frame whose spline is deformed alike,
\* sampleFramePointLocal returns at parameter 1 the point it returns at
\* parameter 0, because the parameter is reduced modulo 1 first.
C12_ClosedLoop ==
    (frmFrame.present /\ {0, SampleDen} \subseteq DOMAIN frmPoints) =>
        frmPoints[SampleDen] = frmPoints[0]

\* A frame with a moved control point (the spline is active) sampled at 0,
\* at 1 and in between, where the curve is elsewhere.
C12_Witness ==
    /\ frmFrame.present
    /\ Len(frmFrame.state.controlPoints) >= 4
    /\ frmMoved # {}
    /\ {0, 7, SampleDen} \subseteq DOMAIN frmPoints
    /\ frmPoints[SampleDen] = frmPoints[0]
    /\ frmPoints[7] # frmPoints[0]

\* C18: in every frame addFrame creates, default control point k is the
\* base-shape sample at k / count for the frame's own radius, width and
\* height.
C18_DefaultControlPointsOnBaseShape ==
    (frmFrame.present /\ frmFrame.origin = "addFrame" /\ frmMoved = {}) =>
        \A k \in 1..Len(frmFrame.state.controlPoints) :
            frmFrame.state.controlPoints[k] =
                sampleBaseFramePointLocal(frmFrame.state, k - 1,
                                          Len(frmFrame.state.controlPoints))

\* The frame is a rectangle, square or triangle sampled on its base shape,
\* and its width or height is zero.
FlatFrame ==
    /\ frmFrame.present
    /\ frmFrame.state.type # "circle"
    /\ Len(frmFrame.state.controlPoints) < 4
    /\ (frmFrame.state.width = 0 \/ frmFrame.state.height = 0)

-----------------------------------------------------------------------------
(* Statements about the transform drag *)

\* C29: when the transform controls go from none dragging to at least one
\* dragging while a film runtime exists, the handler leaves all film
\* velocities at 0; a dragging-changed event that finds a control already
\* dragging leaves the velocities as they are.
C29_DragStartZeroesVelocitiesOnce ==
    [][/\ (appDrag.dragging = {} /\ appDrag'.dragging # {}
            /\ appRuntime.present)
           => (appRuntime'.present /\ appRuntime'.velocities = "zero")
       /\ (appDrag.dragging # {} /\ appDrag'.dragging # appDrag.dragging)
           => appRuntime' = appRuntime]_vars

\* A second control has started to drag during the drag of a first one,
\* over a film a relaxation step has moved since the drag began.
C29_Witness ==
    /\ appEvent.type = "dragging-changed"
    /\ appEvent.wasDragging
    /\ Cardinality(appDrag.dragging) = 2
    /\ appRuntime.present
    /\ appRuntime.velocities = "stepped"

=============================================================================
